---- MODULE Spec2Model ----
(***************************************************************************)
(* A model of the SHRDLU blocks world: the geometry primitives             *)
(* (geometry.py), the physical object and scene model (scenes.py) and the  *)
(* Controller with its grasper state machine (control.py).                 *)
(*                                                                         *)
(* Lengths are fixed-point integers, one unit = 5 mm (the source uses      *)
(* metres as floats): every coordinate of the scenes modelled here is a    *)
(* multiple of 0.005 m, so 0.1 m = 20 units, 1 m = 200 units.              *)
(* A Python Optional value is None (the empty tuple) or Some(v) = <<v>>;   *)
(* a tag a dict does not hold reads as None, which is what every           *)
(* tags.get(key, None) of the source returns for it.                       *)
(***************************************************************************)
EXTENDS Integers, Sequences, FiniteSets, TLC

None == <<>>
Some(v) == <<v>>

\* dict.get(key, default)
Get(tags, key, default) == IF tags[key] = None THEN default ELSE tags[key][1]

Abs(n) == IF n < 0 THEN -n ELSE n

(***************************************************************************)
(* geometry.py: points, edges, surfaces, shapes.                           *)
(* A Point is <<x, y, z>>, an Edge <<start, end>>, a PolygonalSurface a    *)
(* sequence of edges, a PolygonalShape a sequence of surfaces.             *)
(***************************************************************************)
Point(x, y, z) == <<x, y, z>>
Edge(start, end) == <<start, end>>

PointAdd(p, q) == Point(p[1] + q[1], p[2] + q[2], p[3] + q[3])
PointSub(p, q) == Point(p[1] - q[1], p[2] - q[2], p[3] - q[3])

\* GeometricObject.iter_salient_points over a surface (the start and end of
\* each edge, in order) and over a shape (the points of each surface, in order).
SurfaceSalientPoints(surface) ==
    [k \in 1..(2 * Len(surface)) |-> surface[(k + 1) \div 2][2 - (k % 2)]]

RECURSIVE ShapeSalientPoints(_)
ShapeSalientPoints(shape) ==
    IF shape = <<>> THEN <<>>
    ELSE SurfaceSalientPoints(Head(shape)) \o ShapeSalientPoints(Tail(shape))

\* The index pairs <<i, j>>, i < j <= n, in the order of the factories' nested
\* loops "for index, point1 in enumerate(corners): for point2 in corners[index + 1:]".
RECURSIVE PairsFrom(_, _, _)
PairsFrom(i, j, n) ==
    IF i >= n THEN <<>>
    ELSE IF j > n THEN PairsFrom(i + 1, i + 2, n)
    ELSE <<<<i, j>>>> \o PairsFrom(i, j + 1, n)

\* sum(coord1 != coord2 for ...) == 1
Adjacent(p, q) == Cardinality({k \in 1..3 : p[k] # q[k]}) = 1

RECURSIVE AdjacentEdges(_, _)
AdjacentEdges(corners, pairs) ==
    IF pairs = <<>> THEN <<>>
    ELSE LET p == corners[Head(pairs)[1]]
             q == corners[Head(pairs)[2]]
         IN  (IF Adjacent(p, q) THEN <<Edge(p, q)>> ELSE <<>>)
             \o AdjacentEdges(corners, Tail(pairs))

\* tuple(edge for edge in edges if edge.start[k] == edge.end[k] == v)
EdgesInPlane(edges, k, v) ==
    SelectSeq(edges, LAMBDA e : e[1][k] = v /\ e[2][k] = v)

BlockCorners(width, depth, height) ==
    LET left == (-width) \div 2
        right == width \div 2
        front == (-depth) \div 2
        back == depth \div 2
    IN  << Point(left, front, 0), Point(left, front, height),
           Point(left, back, 0), Point(left, back, height),
           Point(right, front, 0), Point(right, front, height),
           Point(right, back, 0), Point(right, back, height) >>

\* The surfaces of a block: its edges in each of the six bounding planes, in
\* the order x_span, y_span, z_span.
BlockSurfaces(edges, width, depth, height) ==
    << EdgesInPlane(edges, 1, (-width) \div 2),
       EdgesInPlane(edges, 1, width \div 2),
       EdgesInPlane(edges, 2, (-depth) \div 2),
       EdgesInPlane(edges, 2, depth \div 2),
       EdgesInPlane(edges, 3, 0),
       EdgesInPlane(edges, 3, height) >>

make_block(width, depth, height) ==
    BlockSurfaces(AdjacentEdges(BlockCorners(width, depth, height), PairsFrom(1, 2, 8)),
                  width, depth, height)

\* The surfaces of a box: its edges in the four bounding planes of x_span and
\* y_span, then its edges in the plane z = bottom.
BoxSurfaces(edges, width, depth) ==
    << EdgesInPlane(edges, 1, (-width) \div 2),
       EdgesInPlane(edges, 1, width \div 2),
       EdgesInPlane(edges, 2, (-depth) \div 2),
       EdgesInPlane(edges, 2, depth \div 2),
       EdgesInPlane(edges, 3, 0) >>

\* make_box, had it left out the bottom surface and kept the top one.
make_box_KeepsTop(width, depth, height) ==
    LET edges == AdjacentEdges(BlockCorners(width, depth, height), PairsFrom(1, 2, 8))
    IN  << EdgesInPlane(edges, 1, (-width) \div 2),
           EdgesInPlane(edges, 1, width \div 2),
           EdgesInPlane(edges, 2, (-depth) \div 2),
           EdgesInPlane(edges, 2, depth \div 2),
           EdgesInPlane(edges, 3, height) >>

make_box(width, depth, height) ==
    BoxSurfaces(AdjacentEdges(BlockCorners(width, depth, height), PairsFrom(1, 2, 8)),
                width, depth)

\* One side of a pyramid: a bottom edge and the side edges that start on it.
PyramidSide(bottom_edge, side_edges) ==
    <<bottom_edge>> \o
    SelectSeq(side_edges, LAMBDA s : s[1] = bottom_edge[1] \/ s[1] = bottom_edge[2])

PyramidSurfaces(bottom_edges, side_edges) ==
    <<bottom_edges>> \o [i \in 1..4 |-> PyramidSide(bottom_edges[i], side_edges)]

PyramidOn(bottom_corners, peak) ==
    PyramidSurfaces(AdjacentEdges(bottom_corners, PairsFrom(1, 2, 4)),
                    [i \in 1..4 |-> Edge(bottom_corners[i], peak)])

make_pyramid(width, depth, height) ==
    LET left == (-width) \div 2
        right == width \div 2
        front == (-depth) \div 2
        back == depth \div 2
    IN  PyramidOn(<< Point(left, front, 0), Point(left, back, 0),
                     Point(right, front, 0), Point(right, back, 0) >>,
                  Point((left + right) \div 2, (front + back) \div 2, height))

make_table(width, depth) ==
    LET left == (-width) \div 2
        right == width \div 2
        front == (-depth) \div 2
        back == depth \div 2
    IN  << AdjacentEdges(<< Point(left, front, 0), Point(left, back, 0),
                            Point(right, front, 0), Point(right, back, 0) >>,
                         PairsFrom(1, 2, 4)) >>

make_grasper(width, height) ==
    LET left == (-width) \div 2
        right == width \div 2
        front == (-width) \div 2
        back == width \div 2
    IN  << << Edge(Point(left, 0, 0), Point(right, 0, 0)) >>,
           << Edge(Point(0, front, 0), Point(0, back, 0)) >>,
           << Edge(Point(0, 0, 0), Point(0, 0, height)) >> >>

\* inside_triangle's default tolerance, 0.001, as a fraction 1 / ToleranceDen.
ToleranceDen == 1000

\* The cross product of two vectors, and the length of a vector whose
\* coordinates are integers.  is_below_point, the only caller, passes points
\* with z = 0, whose cross product has only a z component: the square root is
\* exact there.
Cross(u, v) ==
    Point(u[2] * v[3] - u[3] * v[2], u[3] * v[1] - u[1] * v[3], u[1] * v[2] - u[2] * v[1])

Norm(w) ==
    IF w[1] = 0 /\ w[2] = 0 THEN Abs(w[3])
    ELSE CHOOSE r \in 0..(Abs(w[1]) + Abs(w[2]) + Abs(w[3])) :
             /\ r * r <= w[1] * w[1] + w[2] * w[2] + w[3] * w[3]
             /\ (r + 1) * (r + 1) > w[1] * w[1] + w[2] * w[2] + w[3] * w[3]

\* Twice triangle_area: the length of the cross product of (b - a) and (c - a).
TwiceTriangleArea(a, b, c) == Norm(Cross(PointSub(b, a), PointSub(c, a)))

\* abc_area * (1 + tolerance) >= pbc_area + apc_area + abp_area
inside_triangle(point, a, b, c) ==
    TwiceTriangleArea(a, b, c) * (ToleranceDen + 1)
        >= (TwiceTriangleArea(point, b, c) + TwiceTriangleArea(a, point, c)
            + TwiceTriangleArea(a, b, point)) * ToleranceDen

(***************************************************************************)
(* scenes.py: PhysicalObject and Scene.                                    *)
(* A PhysicalObject is a record [shape, color, position, tags].  Its shape *)
(* is a reference to an immutable PolygonalShape: the name of an entry of  *)
(* Shapes, the shapes the scenes below are built from.  Its tags are a     *)
(* record over TagKeys of Optional values.  A Scene's objects are a        *)
(* sequence; an object reference of the source is an index into it.        *)
(***************************************************************************)
Shapes ==
    [grasper |-> make_grasper(10, 200),
     table |-> make_table(200, 200),
     big_red_block |-> make_block(30, 30, 30),
     small_red_block |-> make_block(20, 20, 16),
     small_green_pyramid |-> make_pyramid(20, 20, 16),
     medium_sized_green_block |-> make_block(30, 30, 20),
     tall_blue_block |-> make_block(30, 30, 40),
     big_green_block |-> make_block(40, 40, 30),
     tall_red_pyramid |-> make_pyramid(20, 20, 40),
     big_white_box |-> make_box(70, 70, 40),
     wide_blue_pyramid |-> make_pyramid(30, 30, 20),
     cube |-> make_block(20, 20, 20),
     slab |-> make_block(60, 60, 20),
     cone |-> make_pyramid(20, 20, 20),
     plank |-> make_block(40, 20, 10),
     wedge |-> make_pyramid(40, 20, 20),
     tray |-> make_box(40, 20, 10),
     hall |-> make_table(2400, 200)]

TagKeys == {"obj_id", "kind", "color", "size", "height", "width", "graspable",
            "can_support", "resting_on", "grasped", "grasped_by", "closed",
            "lowered", "min_x", "max_x", "min_y", "max_y"}

\* dict(key=value, ...): the given tags, every other key absent.
Tags(given) == [k \in TagKeys |-> IF k \in DOMAIN given THEN Some(given[k]) ELSE None]

PhysicalObject(shape, color, position, tags) ==
    [shape |-> shape, color |-> color, position |-> position, tags |-> tags]

\* max(points, key=lambda p: p.z, default=None): the first point of greatest z.
RECURSIVE MaxByZ(_, _)
MaxByZ(points, best) ==
    IF points = <<>> THEN best
    ELSE MaxByZ(Tail(points),
                IF best = None \/ Head(points)[3] > best[1][3]
                THEN Some(Head(points)) ELSE best)

\* max(self.shape.iter_salient_points(), ...) of each shape, computed once.
HighestSalientPoint == [n \in DOMAIN Shapes |-> MaxByZ(ShapeSalientPoints(Shapes[n]), None)]

\* "return self.position + highest_point", None if there is no highest point.
AddHighest(position, highest_point) ==
    IF highest_point = None THEN None
    ELSE Some(PointAdd(position, highest_point[1]))

find_highest_point(obj) ==
    AddHighest(obj.position,
               IF obj.tags["kind"] = Some("box") THEN Some(obj.position)
               ELSE HighestSalientPoint[obj.shape])

\* The set {Point(p.x, p.y, 0) for p in surface.iter_salient_points()}.
Projection(points) == {Point(points[i][1], points[i][2], 0) : i \in 1..Len(points)}

SurfaceProjection(surface) == Projection(SurfaceSalientPoints(surface))

\* Python's tuple order on points, the sort key of surface_projection.
PointLess(p, q) ==
    \/ p[1] < q[1]
    \/ p[1] = q[1] /\ p[2] < q[2]
    \/ p[1] = q[1] /\ p[2] = q[2] /\ p[3] < q[3]

\* The triangles is_below_point tries: per surface, every triple
\* index1 < index2 < index3 of the sorted projection of its salient points.
SortedTriples(surface_projection) ==
    {t \in surface_projection \X surface_projection \X surface_projection :
        PointLess(t[1], t[2]) /\ PointLess(t[2], t[3])}

SurfaceTriangles(surface) == SortedTriples(SurfaceProjection(surface))

ShapeTriangles(shape) == UNION {SurfaceTriangles(shape[s]) : s \in 1..Len(shape)}

\* The triangles of each shape, computed once.
Triangles == [n \in DOMAIN Shapes |-> ShapeTriangles(Shapes[n])]

\* is_below_point, had it tried the triangles of the shape's first surface
\* only.
is_below_point_FirstSurface(obj, point) ==
    \E t \in SurfaceTriangles(Shapes[obj.shape][1]) :
        inside_triangle(Point(point[1] - obj.position[1], point[2] - obj.position[2], 0),
                        t[1], t[2], t[3])

\* is_below_point returns at the first triangle that holds the projected point:
\* it is true iff some triangle of some surface holds it.
is_below_point(obj, point) ==
    \E t \in Triangles[obj.shape] :
        inside_triangle(Point(point[1] - obj.position[1], point[2] - obj.position[2], 0),
                        t[1], t[2], t[3])

\* The distinct salient points of each shape, computed once.
Range(seq) == {seq[i] : i \in 1..Len(seq)}

SalientPointSet == [n \in DOMAIN Shapes |-> Range(ShapeSalientPoints(Shapes[n]))]

\* A can_support that looks at the footprint only, never at the flag.
can_support_IgnoringFlag(self, obj) ==
    IF self.tags["kind"] = Some("box")
    THEN \A point \in SalientPointSet[obj.shape] :
             is_below_point(self, PointAdd(obj.position, point))
    ELSE is_below_point(self, obj.position)

\* A can_support that treats a box like any other kind: it looks at the
\* position of the other object only.
can_support_BoxAsAnyKind(self, obj) ==
    IF ~Get(self.tags, "can_support", FALSE) THEN FALSE
    ELSE is_below_point(self, obj.position)

can_support(self, obj) ==
    IF ~Get(self.tags, "can_support", FALSE) THEN FALSE
    ELSE IF self.tags["kind"] = Some("box")
    THEN \A point \in SalientPointSet[obj.shape] :
             is_below_point(self, PointAdd(obj.position, point))
    ELSE is_below_point(self, obj.position)

\* A match on any of the given tags rather than on all of them.
MatchesAnyTag(obj, filters) == \E k \in DOMAIN filters : obj.tags[k] = filters[k]

\* all(obj.tags.get(key, None) == value for key, value in tags.items());
\* `filters` maps some tag keys to Optional values.
MatchesTags(obj, filters) == \A k \in DOMAIN filters : obj.tags[k] = filters[k]

\* Scene.find_objects: the indexes of the matching objects, in storage order.
find_objects(objects, filters) ==
    SelectSeq([i \in 1..Len(objects) |-> i],
              LAMBDA i : MatchesTags(objects[i], filters))

(***************************************************************************)
(* control.py: the Controller.                                             *)
(* Its state is ctl = [tolerance, default_grasper, grasper_cache]:         *)
(* default_grasper is None or Some(object index), grasper_cache a function *)
(* from the cached ids to object indexes.  An argument of a public method  *)
(* is a record [t, v]: t is "none" (argument omitted), "int" (a number,    *)
(* v) or "str" (a value that is neither an int nor a float).               *)
(* A method call yields [objects, ctl, exc]: the scene and the controller  *)
(* as the call leaves them and the exception raised ("" when it returns).  *)
(***************************************************************************)
ArgNone == [t |-> "none", v |-> 0]
ArgInt(i) == [t |-> "int", v |-> i]
ArgStr == [t |-> "str", v |-> 0]

Returned == ""
UnmetConditionError == "UnmetConditionError"
TypeError == "TypeError"
AssertionError == "AssertionError"

Outcome(objects, ctl, exc) == [objects |-> objects, ctl |-> ctl, exc |-> exc]

\* Controller.__init__
Controller(tolerance) ==
    [tolerance |-> tolerance, default_grasper |-> None, grasper_cache |-> <<>>]

\* Both yield [exc, val]: val is the object's index, 0 for None.
FirstOf(found) == [exc |-> Returned, val |-> IF found = <<>> THEN 0 ELSE Head(found)]

_get_specific_object(objects, obj_id) ==
    IF obj_id.t # "int" THEN [exc |-> TypeError, val |-> 0]
    ELSE FirstOf(find_objects(objects, [obj_id |-> Some(obj_id.v)]))

\* "if obj is None: raise UnmetConditionError"
Required(obj) ==
    IF obj.exc = Returned /\ obj.val = 0 THEN [obj EXCEPT !.exc = UnmetConditionError]
    ELSE obj

_require_specific_object(objects, obj_id) ==
    IF obj_id.t # "int" THEN [exc |-> TypeError, val |-> 0]
    ELSE Required(_get_specific_object(objects, obj_id))

\* A lookup that takes any object of the given id for a grasper.
CacheAnyObject(objects, ctl, grasper_id, grasper) ==
    IF grasper.exc # Returned \/ grasper.val = 0
    THEN [exc |-> grasper.exc, val |-> 0, ctl |-> ctl]
    ELSE [exc |-> Returned, val |-> grasper.val,
          ctl |-> [ctl EXCEPT
              !.grasper_cache = (grasper_id.v :> grasper.val) @@ @,
              !.default_grasper = IF @ = None THEN Some(grasper.val) ELSE @]]

\* The three grasper lookups yield [exc, val, ctl]: they may fill the cache
\* and choose the default grasper.
\* _get_specific_grasper once the object of that id has been looked up.
CacheGrasper(objects, ctl, grasper_id, grasper) ==
    IF grasper.exc # Returned \/ grasper.val = 0
    THEN [exc |-> grasper.exc, val |-> 0, ctl |-> ctl]
    ELSE IF objects[grasper.val].tags["kind"] # Some("grasper")
    THEN [exc |-> UnmetConditionError, val |-> 0, ctl |-> ctl]
    ELSE [exc |-> Returned, val |-> grasper.val,
          ctl |-> [ctl EXCEPT
              !.grasper_cache = (grasper_id.v :> grasper.val) @@ @,
              !.default_grasper = IF @ = None THEN Some(grasper.val) ELSE @]]

_get_specific_grasper(objects, ctl, grasper_id) ==
    IF grasper_id.t # "int" THEN [exc |-> TypeError, val |-> 0, ctl |-> ctl]
    ELSE IF grasper_id.v \in DOMAIN ctl.grasper_cache
    THEN [exc |-> Returned, val |-> ctl.grasper_cache[grasper_id.v], ctl |-> ctl]
    ELSE CacheGrasper(objects, ctl, grasper_id, _get_specific_object(objects, grasper_id))

\* "for grasper in find_objects(kind='grasper')": the first one becomes the
\* default grasper.
FirstGrasper(ctl, graspers) ==
    IF graspers = <<>> THEN [exc |-> Returned, val |-> 0, ctl |-> ctl]
    ELSE [exc |-> Returned, val |-> Head(graspers),
          ctl |-> [ctl EXCEPT !.default_grasper = Some(Head(graspers))]]

\* A lookup that, given no id, takes the first grasper of the scene anew each
\* time.
FirstGrasperEachTime(objects, ctl, grasper_id) ==
    IF grasper_id.t # "none"
    THEN IF grasper_id.t # "int" THEN [exc |-> TypeError, val |-> 0, ctl |-> ctl]
         ELSE _get_specific_grasper(objects, ctl, grasper_id)
    ELSE FirstGrasper(ctl, find_objects(objects, [kind |-> Some("grasper")]))

_get_grasper(objects, ctl, grasper_id) ==
    IF grasper_id.t # "none"
    THEN IF grasper_id.t # "int" THEN [exc |-> TypeError, val |-> 0, ctl |-> ctl]
         ELSE _get_specific_grasper(objects, ctl, grasper_id)
    ELSE IF ctl.default_grasper # None
    THEN [exc |-> Returned, val |-> ctl.default_grasper[1], ctl |-> ctl]
    ELSE FirstGrasper(ctl, find_objects(objects, [kind |-> Some("grasper")]))

_require_grasper(objects, ctl, grasper_id) ==
    IF grasper_id.t \notin {"none", "int"}
    THEN [exc |-> TypeError, val |-> 0, ctl |-> ctl]
    ELSE Required(_get_grasper(objects, ctl, grasper_id))

\* The loop of _find_object_below_grasper from object i on; yields
\* <<target, target_height>>, target an object index or 0 for None.
RECURSIVE BelowScan(_, _, _, _, _)
BelowScan(objects, point, i, target, target_height) ==
    IF i > Len(objects) THEN <<target, target_height>>
    ELSE IF ~(objects[i].tags["grasped_by"] = None
              /\ is_below_point(objects[i], point))
    THEN BelowScan(objects, point, i + 1, target, target_height)
    ELSE LET obj_height == find_highest_point(objects[i])[1][3]
         IN  IF target_height <= obj_height
             THEN BelowScan(objects, point, i + 1, i, obj_height)
             ELSE BelowScan(objects, point, i + 1, target, target_height)

\* A scan that stops at the first object beneath the grasper, in storage
\* order, whatever its height.
FirstObjectBelowGrasper(objects, grasper) ==
    LET below == {i \in 1..Len(objects) :
                     /\ objects[i].tags["grasped_by"] = None
                     /\ is_below_point(objects[i], objects[grasper].position)}
        first == CHOOSE i \in below : \A j \in below : i <= j
    IN  IF below = {} THEN <<0, 0>>
        ELSE <<first, find_highest_point(objects[first])[1][3]>>

_find_object_below_grasper(objects, grasper) ==
    BelowScan(objects, objects[grasper].position, 1, 0, 0)

RECURSIVE StableScan(_, _, _)
StableScan(objects, i, result) ==
    IF i > Len(objects) THEN result
    ELSE IF objects[i].tags["kind"] = Some("grasper")
            \/ objects[i].tags["grasped_by"] # None
    THEN StableScan(objects, i + 1, result)
    ELSE LET obj_result == find_highest_point(objects[i])
         IN  IF obj_result # None /\ obj_result[1][3] > result
             THEN StableScan(objects, i + 1, obj_result[1][3])
             ELSE StableScan(objects, i + 1, result)

\* The highest point of any object no grasper holds, graspers included.
HighestPointOfAnything(objects) ==
    LET tops == {0} \cup {find_highest_point(objects[i])[1][3] :
                              i \in {j \in 1..Len(objects) :
                                        objects[j].tags["grasped_by"] = None}}
    IN  CHOOSE m \in tops : \A t \in tops : t <= m

_find_highest_stable_point(objects) == StableScan(objects, 1, 0)

\* raise_grasper's clearance above the highest stable point: 0.1 m.
RaiseClearance == 20

SetTag(objects, i, key, value) == [objects EXCEPT ![i].tags[key] = value]
SetPosition(objects, i, position) == [objects EXCEPT ![i].position = position]

Closed(obj) == Get(obj.tags, "closed", FALSE)
Lowered(obj) == Get(obj.tags, "lowered", FALSE)

\* A distance test that any two points pass.
WithinAnyDistance(p, q, tolerance) == TRUE

\* A distance that looks at the x displacement alone.
WithinToleranceAlongX(p, q, tolerance) ==
    (p[1] - q[1]) * (p[1] - q[1]) <= tolerance * tolerance

\* distance <= self._grasper_distance_tolerance, on squares.
WithinTolerance(p, q, tolerance) ==
    (p[1] - q[1]) * (p[1] - q[1]) + (p[2] - q[2]) * (p[2] - q[2])
        <= tolerance * tolerance

\* highest_point.z - grasped_obj.position.z
HeldHeight(obj) == find_highest_point(obj)[1][3] - obj.position[3]

\* A grasp that also marks the grasped object as unable to support.
GraspSpoilsSupport(objects, grasper, resting_on) ==
    SetTag(SetTag(SetTag(objects, grasper, "grasped",
                         objects[grasper].tags["resting_on"]),
                  resting_on, "grasped_by", objects[grasper].tags["obj_id"]),
           resting_on, "can_support", Some(FALSE))

\* close_grasper's two link assignments: the grasper grasps the object
\* (index resting_on) that its resting_on tag names.
Grasp(objects, grasper, resting_on) ==
    SetTag(SetTag(objects, grasper, "grasped", objects[grasper].tags["resting_on"]),
           resting_on, "grasped_by", objects[grasper].tags["obj_id"])

\* close_grasper from "if grasper.tags.get('lowered', False)" on, for an open
\* grasper.
CloseOn(objects, ctl, grasper, resting_on_id) ==
    IF Lowered(objects[grasper]) /\ resting_on_id # None /\ resting_on_id[1] # 0
    THEN LET resting_on == _require_specific_object(objects, ArgInt(resting_on_id[1]))
         IN  IF resting_on.exc # Returned THEN Outcome(objects, ctl, resting_on.exc)
             ELSE IF Get(objects[resting_on.val].tags, "graspable", FALSE)
             THEN Outcome(SetTag(Grasp(objects, grasper, resting_on.val),
                                 grasper, "closed", Some(TRUE)),
                          ctl, Returned)
             ELSE Outcome(SetTag(objects, grasper, "closed", Some(TRUE)), ctl, Returned)
    ELSE Outcome(SetTag(objects, grasper, "closed", Some(TRUE)), ctl, Returned)

\* A close_grasper that does not ask for the grasper to be open.
CloseWhetherOpenOrNot(objects, r) ==
    IF r.exc # Returned THEN Outcome(objects, r.ctl, r.exc)
    ELSE CloseOn(objects, r.ctl, r.val, objects[r.val].tags["resting_on"])

\* close_grasper once _require_grasper has yielded r.
CloseWith(objects, r) ==
    IF r.exc # Returned THEN Outcome(objects, r.ctl, r.exc)
    ELSE IF Closed(objects[r.val]) THEN Outcome(objects, r.ctl, UnmetConditionError)
    ELSE CloseOn(objects, r.ctl, r.val, objects[r.val].tags["resting_on"])

close_grasper(objects, ctl, grasper_id) ==
    CloseWith(objects, _require_grasper(objects, ctl, grasper_id))

\* Checks that ask for a resting_on target but not whether it can support
\* the object.
ReleaseRefusalOnAnyTarget(objects, grasper, grasped_obj) ==
    IF ~Lowered(objects[grasper]) THEN UnmetConditionError
    ELSE IF objects[grasped_obj].tags["resting_on"] = None THEN UnmetConditionError
    ELSE IF _require_specific_object(
                objects, ArgInt(objects[grasped_obj].tags["resting_on"][1])).exc # Returned
    THEN UnmetConditionError
    ELSE IF objects[grasped_obj].tags["grasped_by"] # objects[grasper].tags["obj_id"]
    THEN AssertionError
    ELSE Returned

\* open_grasper's checks on the support of the held object, the object its
\* resting_on names having been looked up, and its assertion.
SupportRefusal(objects, grasper, grasped_obj, resting_on) ==
    IF resting_on.exc # Returned THEN resting_on.exc
    ELSE IF ~can_support(objects[resting_on.val], objects[grasped_obj])
    THEN UnmetConditionError
    ELSE IF objects[grasped_obj].tags["grasped_by"] # objects[grasper].tags["obj_id"]
    THEN AssertionError
    ELSE Returned

\* Checks that do not ask for the held object to rest on anything.
ReleaseRefusalWithoutTarget(objects, grasper, grasped_obj) ==
    IF ~Lowered(objects[grasper]) THEN UnmetConditionError
    ELSE IF objects[grasped_obj].tags["resting_on"] = None
    THEN IF objects[grasped_obj].tags["grasped_by"] # objects[grasper].tags["obj_id"]
         THEN AssertionError ELSE Returned
    ELSE SupportRefusal(objects, grasper, grasped_obj,
                        _require_specific_object(
                            objects, ArgInt(objects[grasped_obj].tags["resting_on"][1])))

\* open_grasper's checks before it lets go of the object (index grasped_obj)
\* the grasper holds: the exception one of them raises, or Returned.
ReleaseRefusal(objects, grasper, grasped_obj) ==
    IF ~Lowered(objects[grasper]) THEN UnmetConditionError
    ELSE IF objects[grasped_obj].tags["resting_on"] = None THEN UnmetConditionError
    ELSE SupportRefusal(objects, grasper, grasped_obj,
                        _require_specific_object(
                            objects, ArgInt(objects[grasped_obj].tags["resting_on"][1])))

LetGoKeepsGrasped(objects, grasper, grasped_obj) ==
    SetTag(objects, grasped_obj, "grasped_by", None)

\* A release that also forgets what the object rests on.
LetGoForgetsSupport(objects, grasper, grasped_obj) ==
    SetTag(SetTag(SetTag(objects, grasped_obj, "grasped_by", None),
                  grasper, "grasped", None),
           grasped_obj, "resting_on", None)

\* "Let go of the object": both link tags are cleared.
LetGo(objects, grasper, grasped_obj) ==
    SetTag(SetTag(objects, grasped_obj, "grasped_by", None), grasper, "grasped", None)

\* open_grasper's branch for a grasper that holds the object at grasped_obj,
\* its checks having yielded refusal.
Release(objects, ctl, grasper, grasped_obj, refusal) ==
    IF refusal # Returned THEN Outcome(objects, ctl, refusal)
    ELSE Outcome(SetTag(LetGo(objects, grasper, grasped_obj), grasper, "closed",
                        Some(FALSE)),
                 ctl, Returned)

\* open_grasper's branch for a grasper whose grasped tag is set, the object
\* it names having been looked up.
OpenHolding(objects, ctl, grasper, grasped_obj) ==
    IF grasped_obj.exc # Returned THEN Outcome(objects, ctl, grasped_obj.exc)
    ELSE Release(objects, ctl, grasper, grasped_obj.val,
                 ReleaseRefusal(objects, grasper, grasped_obj.val))

\* An open_grasper that opens an empty grasper only while it is raised.
OpenWithEmptyRaisedOnly(objects, r) ==
    IF r.exc # Returned THEN Outcome(objects, r.ctl, r.exc)
    ELSE IF ~Closed(objects[r.val]) THEN Outcome(objects, r.ctl, UnmetConditionError)
    ELSE IF objects[r.val].tags["grasped"] = None
    THEN IF Lowered(objects[r.val]) THEN Outcome(objects, r.ctl, UnmetConditionError)
         ELSE Outcome(SetTag(objects, r.val, "closed", Some(FALSE)), r.ctl, Returned)
    ELSE OpenHolding(objects, r.ctl, r.val,
                     _require_specific_object(
                         objects, ArgInt(objects[r.val].tags["grasped"][1])))

\* open_grasper once _require_grasper has yielded r.
OpenWith(objects, r) ==
    IF r.exc # Returned THEN Outcome(objects, r.ctl, r.exc)
    ELSE IF ~Closed(objects[r.val]) THEN Outcome(objects, r.ctl, UnmetConditionError)
    ELSE IF objects[r.val].tags["grasped"] = None
    THEN Outcome(SetTag(objects, r.val, "closed", Some(FALSE)), r.ctl, Returned)
    ELSE OpenHolding(objects, r.ctl, r.val,
                     _require_specific_object(
                         objects, ArgInt(objects[r.val].tags["grasped"][1])))

open_grasper(objects, ctl, grasper_id) ==
    OpenWith(objects, _require_grasper(objects, ctl, grasper_id))

OutOfBoundsMaxOnly(tags, min_key, max_key, v) == ~(v <= Get(tags, max_key, v))

\* not min <= v <= max, an absent bound tag reading as v itself.
OutOfBounds(tags, min_key, max_key, v) ==
    ~(Get(tags, min_key, v) <= v /\ v <= Get(tags, max_key, v))

\* "grasped_obj.position = grasper.position - Point(0, 0, height)"
Carry(objects, grasper, grasped_obj, height) ==
    SetPosition(objects, grasped_obj,
                PointSub(objects[grasper].position, Point(0, 0, height)))

\* move_grasper's branch for a grasper whose grasped tag is set, the grasper
\* moved already and the object the tag names looked up.
MoveHeld(moved, ctl, grasper, grasped_obj) ==
    IF grasped_obj.exc # Returned THEN Outcome(moved, ctl, grasped_obj.exc)
    ELSE Outcome(Carry(moved, grasper, grasped_obj.val,
                       HeldHeight(moved[grasped_obj.val])),
                 ctl, Returned)

\* move_grasper from "old_x, old_y, old_z = grasper.position" on.
MoveTo(objects, ctl, grasper, x, y) ==
    LET old == objects[grasper].position
        moved == SetPosition(objects, grasper,
                             Point(IF x.t = "none" THEN old[1] ELSE x.v,
                                   IF y.t = "none" THEN old[2] ELSE y.v,
                                   old[3]))
    IN  IF objects[grasper].tags["grasped"] = None THEN Outcome(moved, ctl, Returned)
        ELSE MoveHeld(moved, ctl, grasper,
                      _require_specific_object(
                          moved, ArgInt(objects[grasper].tags["grasped"][1])))

MoveRefusalIgnoresLowered(objects, grasper, x, y) ==
    IF x.t = "none" /\ y.t = "none" THEN UnmetConditionError
    ELSE IF x.t # "none" /\ OutOfBounds(objects[grasper].tags, "min_x", "max_x", x.v)
    THEN UnmetConditionError
    ELSE IF y.t # "none" /\ OutOfBounds(objects[grasper].tags, "min_y", "max_y", y.v)
    THEN UnmetConditionError
    ELSE Returned

\* move_grasper's checks before it moves anything: the exception one of them
\* raises, or Returned.
MoveRefusal(objects, grasper, x, y) ==
    IF Lowered(objects[grasper]) THEN UnmetConditionError
    ELSE IF x.t = "none" /\ y.t = "none" THEN UnmetConditionError
    ELSE IF x.t # "none" /\ OutOfBounds(objects[grasper].tags, "min_x", "max_x", x.v)
    THEN UnmetConditionError
    ELSE IF y.t # "none" /\ OutOfBounds(objects[grasper].tags, "min_y", "max_y", y.v)
    THEN UnmetConditionError
    ELSE Returned

\* A move_grasper that checks each coordinate as it applies it: x is moved
\* before y is checked.
MoveCoordinateWise(objects, r, x, y) ==
    IF r.exc # Returned THEN Outcome(objects, r.ctl, r.exc)
    ELSE IF MoveRefusal(objects, r.val, x, IF x.t = "none" THEN y ELSE ArgNone) # Returned
    THEN Outcome(objects, r.ctl, UnmetConditionError)
    ELSE LET moved_x == IF x.t = "none" THEN objects
                        ELSE MoveTo(objects, r.ctl, r.val, x, ArgNone).objects
         IN  IF y.t # "none" /\ OutOfBounds(moved_x[r.val].tags, "min_y", "max_y", y.v)
             THEN Outcome(moved_x, r.ctl, UnmetConditionError)
             ELSE IF y.t = "none" THEN Outcome(moved_x, r.ctl, Returned)
             ELSE MoveTo(moved_x, r.ctl, r.val, ArgNone, y)

move_grasper_CoordinateWise(objects, ctl, x, y, grasper_id) ==
    IF x.t = "str" \/ y.t = "str" THEN Outcome(objects, ctl, TypeError)
    ELSE MoveCoordinateWise(objects, _require_grasper(objects, ctl, grasper_id), x, y)

\* move_grasper once _require_grasper has yielded r.
MoveWith(objects, r, x, y) ==
    IF r.exc # Returned THEN Outcome(objects, r.ctl, r.exc)
    ELSE IF MoveRefusal(objects, r.val, x, y) # Returned
    THEN Outcome(objects, r.ctl, MoveRefusal(objects, r.val, x, y))
    ELSE MoveTo(objects, r.ctl, r.val, x, y)

\* A move_grasper that looks its grasper up before it checks x and y.
MoveTypeCheckedLate(objects, r, x, y) ==
    IF r.exc # Returned THEN Outcome(objects, r.ctl, r.exc)
    ELSE IF x.t = "str" \/ y.t = "str" THEN Outcome(objects, r.ctl, TypeError)
    ELSE MoveWith(objects, r, x, y)

move_grasper_TypeCheckedLate(objects, ctl, x, y, grasper_id) ==
    MoveTypeCheckedLate(objects, _require_grasper(objects, ctl, grasper_id), x, y)

move_grasper(objects, ctl, x, y, grasper_id) ==
    IF x.t = "str" \/ y.t = "str" THEN Outcome(objects, ctl, TypeError)
    ELSE MoveWith(objects, _require_grasper(objects, ctl, grasper_id), x, y)

\* lower_grasper's branch for a grasper that holds nothing.
LowerEmpty(objects, ctl, grasper, target, target_height) ==
    LET pos == objects[grasper].position
        lowered == SetPosition(objects, grasper, Point(pos[1], pos[2], target_height))
        rested ==
            IF target # 0
               /\ WithinTolerance(lowered[target].position, lowered[grasper].position,
                                  ctl.tolerance)
            THEN SetTag(lowered, grasper, "resting_on", lowered[target].tags["obj_id"])
            ELSE lowered
    IN  Outcome(SetTag(rested, grasper, "lowered", Some(TRUE)), ctl, Returned)

\* A lower_grasper that records what the held object rests on only when the
\* object comes down on the target's centre.
LowerHeldWhenCentred(objects, ctl, grasper, grasped_obj, height, target, target_height) ==
    LET pos == objects[grasper].position
        objs1 == SetPosition(objects, grasper,
                             Point(pos[1], pos[2], target_height + height))
        objs2 == SetPosition(objs1, grasped_obj, Point(pos[1], pos[2], target_height))
        objs3 == IF target # 0
                    /\ WithinTolerance(objects[target].position, pos, ctl.tolerance)
                 THEN SetTag(objs2, grasped_obj, "resting_on",
                             objects[target].tags["obj_id"])
                 ELSE objs2
    IN  Outcome(SetTag(objs3, grasper, "lowered", Some(TRUE)), ctl, Returned)

\* lower_grasper's branch for a grasper that holds the object at grasped_obj,
\* of the given height.
LowerHeld(objects, ctl, grasper, grasped_obj, height, target, target_height) ==
    LET pos == objects[grasper].position
        objs1 == SetPosition(objects, grasper,
                             Point(pos[1], pos[2], target_height + height))
        objs2 == SetPosition(objs1, grasped_obj, Point(pos[1], pos[2], target_height))
        objs3 == IF target # 0
                 THEN SetTag(objs2, grasped_obj, "resting_on",
                             objects[target].tags["obj_id"])
                 ELSE objs2
    IN  Outcome(SetTag(objs3, grasper, "lowered", Some(TRUE)), ctl, Returned)

\* lower_grasper's branch for a grasper whose grasped tag is set, the object
\* it names having been looked up.
LowerHolding(objects, ctl, grasper, grasped_obj, target, target_height) ==
    IF grasped_obj.exc # Returned THEN Outcome(objects, ctl, grasped_obj.exc)
    ELSE LowerHeld(objects, ctl, grasper, grasped_obj.val,
                   HeldHeight(objects[grasped_obj.val]), target, target_height)

\* A lower_grasper that refuses to go down to the ground: it needs an
\* object beneath the grasper.
LowerOntoObjectsOnly(objects, ctl, grasper, below) ==
    IF below[1] = 0 THEN Outcome(objects, ctl, UnmetConditionError)
    ELSE IF objects[grasper].tags["grasped"] = None
    THEN LowerEmpty(objects, ctl, grasper, below[1], below[2])
    ELSE LowerHolding(objects, ctl, grasper,
                      _require_specific_object(
                          objects, ArgInt(objects[grasper].tags["grasped"][1])),
                      below[1], below[2])

\* lower_grasper from "target, target_height = ..." on; below is that pair.
LowerOnto(objects, ctl, grasper, below) ==
    IF objects[grasper].tags["grasped"] = None
    THEN LowerEmpty(objects, ctl, grasper, below[1], below[2])
    ELSE LowerHolding(objects, ctl, grasper,
                      _require_specific_object(
                          objects, ArgInt(objects[grasper].tags["grasped"][1])),
                      below[1], below[2])

\* lower_grasper once _require_grasper has yielded r.
LowerWith(objects, r) ==
    IF r.exc # Returned THEN Outcome(objects, r.ctl, r.exc)
    ELSE IF Lowered(objects[r.val]) THEN Outcome(objects, r.ctl, UnmetConditionError)
    ELSE LowerOnto(objects, r.ctl, r.val, _find_object_below_grasper(objects, r.val))

lower_grasper(objects, ctl, grasper_id) ==
    LowerWith(objects, _require_grasper(objects, ctl, grasper_id))

\* "grasper.position = Point(x, y, highest_point.z)", the held object raised
\* already and highest_point its highest point.
RaiseOver(objects, grasper, highest_point) ==
    SetPosition(objects, grasper,
                Point(objects[grasper].position[1], objects[grasper].position[2],
                      highest_point[1][3]))

\* A raise_grasper that, holding an object, clears the grasper's own
\* resting_on tag as well.
RaiseHeldClearsBoth(objects, ctl, grasper, grasped_obj, minimum_height) ==
    LET pos == objects[grasper].position
        objs1 == SetPosition(objects, grasped_obj, Point(pos[1], pos[2], minimum_height))
    IN  Outcome(SetTag(SetTag(SetTag(RaiseOver(objs1, grasper,
                                               find_highest_point(objs1[grasped_obj])),
                                     grasped_obj, "resting_on", None),
                              grasper, "resting_on", None),
                       grasper, "lowered", Some(FALSE)),
                ctl, Returned)

\* raise_grasper's branch for a grasper that holds the object at grasped_obj.
RaiseHeld(objects, ctl, grasper, grasped_obj, minimum_height) ==
    LET pos == objects[grasper].position
        objs1 == SetPosition(objects, grasped_obj, Point(pos[1], pos[2], minimum_height))
    IN  Outcome(SetTag(SetTag(RaiseOver(objs1, grasper,
                                        find_highest_point(objs1[grasped_obj])),
                              grasped_obj, "resting_on", None),
                       grasper, "lowered", Some(FALSE)),
                ctl, Returned)

\* raise_grasper's branch for a grasper whose grasped tag is set, the object
\* it names having been looked up.
RaiseHolding(objects, ctl, grasper, grasped_obj, minimum_height) ==
    IF grasped_obj.exc # Returned THEN Outcome(objects, ctl, grasped_obj.exc)
    ELSE RaiseHeld(objects, ctl, grasper, grasped_obj.val, minimum_height)

\* A raise_grasper that stops at the highest stable point, with no clearance.
RaiseToStableTop(objects, ctl, grasper, minimum_height) ==
    LET pos == objects[grasper].position
    IN  IF objects[grasper].tags["grasped"] = None
        THEN Outcome(SetTag(SetTag(SetPosition(objects, grasper,
                                               Point(pos[1], pos[2],
                                                     minimum_height - RaiseClearance)),
                                   grasper, "resting_on", None),
                            grasper, "lowered", Some(FALSE)),
                     ctl, Returned)
        ELSE RaiseHolding(objects, ctl, grasper,
                          _require_specific_object(
                              objects, ArgInt(objects[grasper].tags["grasped"][1])),
                          minimum_height - RaiseClearance)

\* raise_grasper from "grasped_obj_id = ..." on.
RaiseTo(objects, ctl, grasper, minimum_height) ==
    LET pos == objects[grasper].position
    IN  IF objects[grasper].tags["grasped"] = None
        THEN Outcome(SetTag(SetTag(SetPosition(objects, grasper,
                                               Point(pos[1], pos[2], minimum_height)),
                                   grasper, "resting_on", None),
                            grasper, "lowered", Some(FALSE)),
                     ctl, Returned)
        ELSE RaiseHolding(objects, ctl, grasper,
                          _require_specific_object(
                              objects, ArgInt(objects[grasper].tags["grasped"][1])),
                          minimum_height)

\* raise_grasper once _require_grasper has yielded r.
RaiseWith(objects, r) ==
    IF r.exc # Returned THEN Outcome(objects, r.ctl, r.exc)
    ELSE IF ~Lowered(objects[r.val]) THEN Outcome(objects, r.ctl, UnmetConditionError)
    ELSE RaiseTo(objects, r.ctl, r.val,
                 _find_highest_stable_point(objects) + RaiseClearance)

raise_grasper(objects, ctl, grasper_id) ==
    RaiseWith(objects, _require_grasper(objects, ctl, grasper_id))

\* The default_grasper setter.
SetDefault(objects, r) ==
    IF r.exc # Returned THEN Outcome(objects, r.ctl, r.exc)
    ELSE Outcome(objects, [r.ctl EXCEPT !.default_grasper = Some(r.val)], Returned)

set_default_grasper(objects, ctl, grasper_id) ==
    SetDefault(objects, _require_grasper(objects, ctl, grasper_id))

(***************************************************************************)
(* The queries.  A query yields [objects, ctl, exc, ret]: ret is the value *)
(* returned, None for Python's None, Some(v) for any other value v, and    *)
(* None when the query raises.  The two generators, find_objects and       *)
(* iter_object_tags, are modelled as run to exhaustion by their caller:    *)
(* ret is then the sequence of the ids yielded, or the tag map whose items *)
(* are yielded (a key bound to None and a missing key are not told apart), *)
(* and exc is the exception that the iteration raises.                     *)
(***************************************************************************)
Answer(objects, ctl, exc, ret) ==
    [objects |-> objects, ctl |-> ctl, exc |-> exc, ret |-> ret]

\* dict.get(key, default), the default being None or Some(value).
GetOr(tags, key, default) == IF tags[key] = None THEN default ELSE tags[key]

\* A grasper query that reads with dict.setdefault: a missing tag is written
\* with the default.
GrasperTagSetDefault(objects, r, key, default) ==
    IF r.exc # Returned THEN Answer(objects, r.ctl, r.exc, None)
    ELSE Answer(SetTag(objects, r.val, key, GetOr(objects[r.val].tags, key, default)),
                r.ctl, Returned, GetOr(objects[r.val].tags, key, default))

\* "self._require_grasper(grasper_id).tags.get(key, default)", once
\* _require_grasper has yielded r.
GrasperTag(objects, r, key, default) ==
    IF r.exc # Returned THEN Answer(objects, r.ctl, r.exc, None)
    ELSE Answer(objects, r.ctl, Returned, GetOr(objects[r.val].tags, key, default))

grasper_is_closed(objects, ctl, grasper_id) ==
    GrasperTag(objects, _require_grasper(objects, ctl, grasper_id), "closed",
               Some(FALSE))

grasper_is_lowered(objects, ctl, grasper_id) ==
    GrasperTag(objects, _require_grasper(objects, ctl, grasper_id), "lowered",
               Some(FALSE))

get_grasped_object(objects, ctl, grasper_id) ==
    GrasperTag(objects, _require_grasper(objects, ctl, grasper_id), "grasped", None)

\* The obj_id of each object of found that has one, in the order of found.
RECURSIVE YieldIds(_, _)
\* A find_objects that yields the place of each object found in the scene's
\* storage instead of its obj_id.
YieldPlaces(objects, found) == found

YieldIds(objects, found) ==
    IF found = <<>> THEN <<>>
    ELSE IF objects[Head(found)].tags["obj_id"] = None
    THEN YieldIds(objects, Tail(found))
    ELSE <<objects[Head(found)].tags["obj_id"][1]>> \o YieldIds(objects, Tail(found))

\* Controller.find_objects(**tags)
Controller_find_objects(objects, ctl, filters) ==
    Answer(objects, ctl, Returned, Some(YieldIds(objects, find_objects(objects, filters))))

\* get_object_tag once _require_specific_object has yielded obj.
ObjectTag(objects, ctl, obj, tag, default) ==
    IF obj.exc # Returned THEN Answer(objects, ctl, obj.exc, None)
    ELSE Answer(objects, ctl, Returned, GetOr(objects[obj.val].tags, tag, default))

get_object_tag(objects, ctl, obj_id, tag, default) ==
    ObjectTag(objects, ctl, _require_specific_object(objects, obj_id), tag, default)

\* iter_object_tags once _require_specific_object has yielded obj.
ObjectTags(objects, ctl, obj) ==
    IF obj.exc # Returned THEN Answer(objects, ctl, obj.exc, None)
    ELSE Answer(objects, ctl, Returned, Some(objects[obj.val].tags))

iter_object_tags(objects, ctl, obj_id) ==
    ObjectTags(objects, ctl, _require_specific_object(objects, obj_id))

\* get_object_position once _require_specific_object has yielded obj.
ObjectPosition(objects, ctl, obj) ==
    IF obj.exc # Returned THEN Answer(objects, ctl, obj.exc, None)
    ELSE Answer(objects, ctl, Returned, Some(objects[obj.val].position))

get_object_position(objects, ctl, obj_id) ==
    ObjectPosition(objects, ctl, _require_specific_object(objects, obj_id))

(***************************************************************************)
(* Scenes.  make_standard_scene is the source's; the two others are scenes *)
(* a caller builds from the same factories (Scene is a public dataclass):  *)
(* one with two graspers over one block, one with a bounded grasper, an    *)
(* off-centre tower, a pyramid and a block whose obj_id is 0.  "duet" is    *)
(* the two-grasper scene again, driven by calls that always name their     *)
(* grasper, which leaves room for longer runs.  "lookup" is the            *)
(* two-grasper scene once more, driven by commands and queries whose       *)
(* arguments may name no object, name an object that is no grasper, or be  *)
(* of the wrong type; "bare" is a scene without any grasper.               *)
(***************************************************************************)
Color(red, green, blue) == <<red, green, blue>>

make_standard_scene ==
    << PhysicalObject("grasper", Color(230, 230, 0), Point(0, 0, 100),
           Tags([obj_id |-> 0, kind |-> "grasper", color |-> "yellow",
                 graspable |-> FALSE, can_support |-> FALSE])),
       PhysicalObject("table", Color(0, 0, 0), Point(0, 0, 0),
           Tags([obj_id |-> 1, kind |-> "table", color |-> "black",
                 graspable |-> FALSE, can_support |-> TRUE])),
       \* big_red_block
       PhysicalObject("big_red_block", Color(255, 0, 0), Point(-60, 20, 0),
           Tags([obj_id |-> 2, kind |-> "block", size |-> "big", height |-> "tall",
                 width |-> "wide", color |-> "red", graspable |-> TRUE,
                 can_support |-> TRUE, resting_on |-> 1])),
       \* small_red_block
       PhysicalObject("small_red_block", Color(255, 0, 0), Point(-50, -40, 0),
           Tags([obj_id |-> 3, kind |-> "block", size |-> "small", height |-> "short",
                 width |-> "narrow", color |-> "red", graspable |-> TRUE,
                 can_support |-> TRUE, resting_on |-> 1])),
       \* small_green_pyramid
       PhysicalObject("small_green_pyramid", Color(0, 255, 0), Point(-50, -40, 16),
           Tags([obj_id |-> 4, kind |-> "pyramid", size |-> "small", height |-> "short",
                 width |-> "narrow", color |-> "green", graspable |-> TRUE,
                 can_support |-> FALSE, resting_on |-> 3])),
       \* medium_sized_green_block
       PhysicalObject("medium_sized_green_block", Color(0, 255, 0), Point(-60, 10, 30),
           Tags([obj_id |-> 5, kind |-> "block", size |-> "medium", height |-> "medium",
                 width |-> "wide", color |-> "green", graspable |-> TRUE,
                 can_support |-> TRUE, resting_on |-> 2])),
       \* tall_blue_block
       PhysicalObject("tall_blue_block", Color(0, 0, 255), Point(-20, 80, 0),
           Tags([obj_id |-> 6, kind |-> "block", size |-> "big", height |-> "tall",
                 width |-> "medium", color |-> "blue", graspable |-> TRUE,
                 can_support |-> TRUE, resting_on |-> 1])),
       \* big_green_block
       PhysicalObject("big_green_block", Color(0, 255, 0), Point(20, -30, 0),
           Tags([obj_id |-> 7, kind |-> "block", size |-> "big", height |-> "tall",
                 width |-> "wide", color |-> "green", graspable |-> TRUE,
                 can_support |-> TRUE, resting_on |-> 1])),
       \* tall_red_pyramid
       PhysicalObject("tall_red_pyramid", Color(255, 0, 0), Point(30, -20, 30),
           Tags([obj_id |-> 8, kind |-> "pyramid", size |-> "medium", height |-> "tall",
                 width |-> "narrow", color |-> "red", graspable |-> TRUE,
                 can_support |-> FALSE, resting_on |-> 7])),
       \* big_white_box
       PhysicalObject("big_white_box", Color(255, 255, 255), Point(50, 50, 0),
           Tags([obj_id |-> 9, kind |-> "box", size |-> "big", height |-> "medium",
                 width |-> "wide", color |-> "white", graspable |-> FALSE,
                 can_support |-> TRUE, resting_on |-> 1])),
       \* wide_blue_pyramid
       PhysicalObject("wide_blue_pyramid", Color(0, 0, 255), Point(50, 50, 0),
           Tags([obj_id |-> 10, kind |-> "pyramid", size |-> "medium",
                 height |-> "medium", width |-> "medium", color |-> "blue",
                 graspable |-> TRUE, can_support |-> FALSE, resting_on |-> 9])) >>

\* Two graspers above one block on a table.
TwoGrasperScene ==
    << PhysicalObject("grasper", Color(230, 230, 0), Point(0, 0, 100),
           Tags([obj_id |-> 0, kind |-> "grasper", color |-> "yellow",
                 graspable |-> FALSE, can_support |-> FALSE])),
       PhysicalObject("grasper", Color(230, 230, 0), Point(0, 0, 100),
           Tags([obj_id |-> 1, kind |-> "grasper", color |-> "yellow",
                 graspable |-> FALSE, can_support |-> FALSE])),
       PhysicalObject("table", Color(0, 0, 0), Point(0, 0, 0),
           Tags([obj_id |-> 2, kind |-> "table", color |-> "black",
                 graspable |-> FALSE, can_support |-> TRUE])),
       PhysicalObject("cube", Color(255, 0, 0), Point(0, 0, 0),
           Tags([obj_id |-> 3, kind |-> "block", color |-> "red", graspable |-> TRUE,
                 can_support |-> TRUE, resting_on |-> 2])) >>

\* One grasper with bound tags (no max_y) above a base block that carries a
\* smaller block off its centre; a block with obj_id 0 and a pyramid beside it.
TowerScene ==
    << PhysicalObject("cube", Color(0, 0, 255), Point(-40, 0, 0),
           Tags([obj_id |-> 0, kind |-> "block", color |-> "blue", graspable |-> TRUE,
                 can_support |-> TRUE, resting_on |-> 2])),
       PhysicalObject("grasper", Color(230, 230, 0), Point(0, 0, 100),
           Tags([obj_id |-> 1, kind |-> "grasper", color |-> "yellow",
                 graspable |-> FALSE, can_support |-> FALSE,
                 min_x |-> -40, max_x |-> 40, min_y |-> -20])),
       PhysicalObject("table", Color(0, 0, 0), Point(0, 0, 0),
           Tags([obj_id |-> 2, kind |-> "table", color |-> "black",
                 graspable |-> FALSE, can_support |-> TRUE])),
       PhysicalObject("slab", Color(255, 0, 0), Point(0, 0, 0),
           Tags([obj_id |-> 3, kind |-> "block", color |-> "red", graspable |-> TRUE,
                 can_support |-> TRUE, resting_on |-> 2])),
       PhysicalObject("cube", Color(0, 255, 0), Point(20, 0, 20),
           Tags([obj_id |-> 4, kind |-> "block", color |-> "green", graspable |-> TRUE,
                 can_support |-> TRUE, resting_on |-> 3])),
       PhysicalObject("cone", Color(0, 255, 0), Point(40, 0, 0),
           Tags([obj_id |-> 5, kind |-> "pyramid", color |-> "green",
                 graspable |-> TRUE, can_support |-> FALSE, resting_on |-> 2])) >>

\* A block on a table, and no grasper.
BareScene ==
    << PhysicalObject("table", Color(0, 0, 0), Point(0, 0, 0),
           Tags([obj_id |-> 0, kind |-> "table", color |-> "black",
                 graspable |-> FALSE, can_support |-> TRUE])),
       PhysicalObject("cube", Color(255, 0, 0), Point(0, 0, 0),
           Tags([obj_id |-> 1, kind |-> "block", color |-> "red", graspable |-> TRUE,
                 can_support |-> TRUE, resting_on |-> 0])) >>

Scenes == [standard |-> make_standard_scene, pair |-> TwoGrasperScene,
           tower |-> TowerScene, duet |-> TwoGrasperScene,
           lookup |-> TwoGrasperScene, bare |-> BareScene]

\* The controller's default distance tolerance, 0.000001 m, is below the
\* 5 mm grid: on the grid, "distance <= tolerance" holds at distance 0 only.
grasper_distance_tolerance == 0

(***************************************************************************)
(* The state machine: a Controller over one of the scenes, driven by any   *)
(* sequence of calls of its public methods.                                *)
(***************************************************************************)
VARIABLES
    setup,      \* which scene the controller was handed
    objects,    \* Scene.objects
    ctl,        \* the Controller's own fields
    last,       \* the last call: method, arguments, the grasper it resolved and
                \* that grasper as it was before the call, the exception raised
    steps,      \* number of calls made
    script,     \* how many calls of PickAndPlace the calls so far have followed
                \* from the standard scene on (-1 once they left it)
    cycle,      \* a lower_grasper of a grasper that holds nothing, and the
                \* raise_grasper of that grasper that directly follows it
    asked,      \* the last call's further arguments, when it was a query
    ret,        \* the value the last call returned
    viewer      \* the Viewer that displays the scene, when there is one

vars == <<setup, objects, ctl, last, steps, script, cycle, asked, ret, viewer>>

\* The number of calls explored from each scene.
MaxStepsStandard == 7
MaxStepsPair == 6
MaxStepsTower == 7
MaxStepsDuet == 8
MaxStepsLookup == 3
MaxStepsBare == 2
MaxSteps == [standard |-> MaxStepsStandard, pair |-> MaxStepsPair,
             tower |-> MaxStepsTower, duet |-> MaxStepsDuet,
             lookup |-> MaxStepsLookup, bare |-> MaxStepsBare]

\* The arguments the calls are drawn from, per scene.  In the tower scene id 0
\* names a block, in the pair scene ids 0 and 1 name the two graspers.  In
\* the lookup scene id 3 names the block and id 9 no object; in the bare
\* scene ids 0 and 1 name the table and the block.
GrasperIds == [standard |-> {ArgNone},
               pair |-> {ArgNone, ArgInt(0), ArgInt(1)},
               tower |-> {ArgNone, ArgInt(0)},
               duet |-> {ArgInt(0), ArgInt(1)},
               lookup |-> {ArgNone, ArgInt(0), ArgInt(1), ArgInt(3), ArgInt(9), ArgStr},
               bare |-> {ArgNone, ArgInt(0), ArgInt(1)}]
MoveArgs ==
    [standard |-> {<<ArgInt(-60), ArgInt(20)>>, <<ArgInt(-60), ArgInt(10)>>,
                   <<ArgInt(0), ArgNone>>},
     pair |-> {<<ArgInt(0), ArgNone>>, <<ArgInt(40), ArgNone>>},
     tower |-> {<<ArgInt(-40), ArgNone>>, <<ArgInt(20), ArgNone>>,
                <<ArgInt(40), ArgNone>>, <<ArgInt(60), ArgNone>>,
                <<ArgNone, ArgInt(-40)>>, <<ArgNone, ArgInt(120)>>,
                <<ArgInt(20), ArgInt(-40)>>, <<ArgNone, ArgNone>>},
     duet |-> {<<ArgInt(40), ArgNone>>, <<ArgNone, ArgInt(40)>>},
     lookup |-> {<<ArgInt(40), ArgNone>>, <<ArgStr, ArgNone>>, <<ArgInt(40), ArgStr>>},
     bare |-> {<<ArgInt(40), ArgNone>>}]

\* The arguments the queries are drawn from, per scene: the grasper ids of
\* the three grasper queries, the object ids and tag names of the object
\* queries, the keyword arguments of find_objects.
QueryIds == [standard |-> {}, pair |-> {}, tower |-> {},
             duet |-> {},
             lookup |-> {ArgNone, ArgInt(0), ArgInt(1), ArgInt(3), ArgInt(9), ArgStr},
             bare |-> {ArgNone, ArgInt(0), ArgInt(1)}]
ObjectIds == [standard |-> {}, pair |-> {}, tower |-> {},
              duet |-> {},
              lookup |-> {ArgNone, ArgInt(1), ArgInt(3), ArgInt(9), ArgStr},
              bare |-> {ArgInt(1), ArgInt(2)}]
TagNames == [standard |-> {}, pair |-> {}, tower |-> {},
             duet |-> {},
             lookup |-> {"kind", "grasped_by"},
             bare |-> {"kind"}]
Filters ==
    [standard |-> << [kind |-> Some("pyramid"), color |-> Some("red")] >>,
     pair |-> <<>>,
     tower |-> <<>>,
     duet |-> <<>>,
     lookup |-> << <<>>,
                   [kind |-> Some("grasper")],
                   [kind |-> Some("block"), color |-> Some("red")],
                   [color |-> Some("yellow"), lowered |-> Some(TRUE)],
                   [grasped_by |-> Some(1)],
                   [min_x |-> None],
                   [min_x |-> Some(0)],
                   [color |-> Some("green")] >>,
     bare |-> << <<>>, [kind |-> Some("grasper")] >>]

\* The pick-and-place scenario of the standard scene: the grasper is placed
\* over the big red block's position, then lower, close, raise, move(x=0.0),
\* lower, open, all on the default grasper.
PickAndPlace ==
    << [op |-> "move_grasper", x |-> ArgInt(-60), y |-> ArgInt(20)],
       [op |-> "lower_grasper", x |-> ArgNone, y |-> ArgNone],
       [op |-> "close_grasper", x |-> ArgNone, y |-> ArgNone],
       [op |-> "raise_grasper", x |-> ArgNone, y |-> ArgNone],
       [op |-> "move_grasper", x |-> ArgInt(0), y |-> ArgNone],
       [op |-> "lower_grasper", x |-> ArgNone, y |-> ArgNone],
       [op |-> "open_grasper", x |-> ArgNone, y |-> ArgNone] >>

Call(op, grasper_id, x, y, grasper, old, exc) ==
    [op |-> op, grasper_id |-> grasper_id, x |-> x, y |-> y,
     grasper |-> grasper, old |-> old, exc |-> exc]

\* The further arguments of a query; those of a call that has none.
Question(obj_id, tag, filters) == [obj_id |-> obj_id, tag |-> tag, filters |-> filters]
NoQuestion == Question(ArgNone, "", <<>>)

\* The controller is driven directly: no Viewer is attached.
NoViewer == None

\* No lower/raise pair is under way.
NoCycle == [phase |-> "none", grasper |-> 0, z |-> 0]

\* The state after Controller(scene), for a scene among the given ones.
InitOf(setups) ==
    /\ setup \in setups
    /\ objects = Scenes[setup]
    /\ ctl = Controller(grasper_distance_tolerance)
    /\ last = Call("__init__", ArgNone, ArgNone, ArgNone, 0, None, Returned)
    /\ steps = 0
    /\ script = IF setup = "standard" THEN 0 ELSE -1
    /\ cycle = NoCycle
    /\ asked = NoQuestion
    /\ ret = None
    /\ viewer = NoViewer

Init == InitOf({"standard", "pair", "tower", "lookup", "bare"})

\* The state after one call: the scene and controller become what the call
\* leaves, and `last` records the call, the grasper it resolved (0 if none)
\* and its outcome.
Record(op, grasper_id, x, y, grasper, outcome) ==
    /\ steps < MaxSteps[setup]
    /\ objects' = outcome.objects
    /\ ctl' = outcome.ctl
    /\ last' = Call(op, grasper_id, x, y, grasper,
                    IF grasper = 0 THEN None ELSE Some(objects[grasper]),
                    outcome.exc)
    /\ steps' = steps + 1
    /\ script' = IF /\ script >= 0
                    /\ script < Len(PickAndPlace)
                    /\ grasper_id = ArgNone
                    /\ PickAndPlace[script + 1] = [op |-> op, x |-> x, y |-> y]
                 THEN script + 1 ELSE -1
    /\ cycle' = IF /\ op = "lower_grasper"
                   /\ outcome.exc = Returned
                   /\ objects[grasper].tags["grasped"] = None
                THEN [phase |-> "lowered", grasper |-> grasper,
                      z |-> objects[grasper].position[3]]
                ELSE IF /\ op = "raise_grasper"
                        /\ outcome.exc = Returned
                        /\ cycle.phase = "lowered"
                        /\ cycle.grasper = grasper
                THEN [cycle EXCEPT !.phase = "raised"]
                ELSE NoCycle
    /\ UNCHANGED <<setup, viewer>>

\* One call of a command on the controller; it returns None.
Do(op, grasper_id, x, y, outcome) ==
    /\ Record(op, grasper_id, x, y,
              _require_grasper(objects, ctl, grasper_id).val, outcome)
    /\ asked' = NoQuestion
    /\ ret' = None

\* One call of a query that takes a grasper id.
AskGrasper(op, grasper_id, answer) ==
    /\ Record(op, grasper_id, ArgNone, ArgNone,
              _require_grasper(objects, ctl, grasper_id).val, answer)
    /\ asked' = NoQuestion
    /\ ret' = answer.ret

\* One call of a query that takes no grasper id.
Ask(op, question, answer) ==
    /\ Record(op, ArgNone, ArgNone, ArgNone, 0, answer)
    /\ asked' = question
    /\ ret' = answer.ret

CloseGrasper ==
    \E g \in GrasperIds[setup] :
        Do("close_grasper", g, ArgNone, ArgNone, close_grasper(objects, ctl, g))

OpenGrasper ==
    \E g \in GrasperIds[setup] :
        Do("open_grasper", g, ArgNone, ArgNone, open_grasper(objects, ctl, g))

MoveGrasper ==
    \E g \in GrasperIds[setup], a \in MoveArgs[setup] :
        Do("move_grasper", g, a[1], a[2], move_grasper(objects, ctl, a[1], a[2], g))

LowerGrasper ==
    \E g \in GrasperIds[setup] :
        Do("lower_grasper", g, ArgNone, ArgNone, lower_grasper(objects, ctl, g))

RaiseGrasper ==
    \E g \in GrasperIds[setup] :
        Do("raise_grasper", g, ArgNone, ArgNone, raise_grasper(objects, ctl, g))

SetDefaultGrasper ==
    \E g \in GrasperIds[setup] :
        Do("default_grasper", g, ArgNone, ArgNone, set_default_grasper(objects, ctl, g))

GrasperIsClosed ==
    \E g \in QueryIds[setup] :
        AskGrasper("grasper_is_closed", g, grasper_is_closed(objects, ctl, g))

GrasperIsLowered ==
    \E g \in QueryIds[setup] :
        AskGrasper("grasper_is_lowered", g, grasper_is_lowered(objects, ctl, g))

GetGraspedObject ==
    \E g \in QueryIds[setup] :
        AskGrasper("get_grasped_object", g, get_grasped_object(objects, ctl, g))

FindObjects ==
    \E n \in 1..Len(Filters[setup]) :
        Ask("find_objects", Question(ArgNone, "", Filters[setup][n]),
            Controller_find_objects(objects, ctl, Filters[setup][n]))

\* The default of get_object_tag is left at None.
GetObjectTag ==
    \E obj_id \in ObjectIds[setup], tag \in TagNames[setup] :
        Ask("get_object_tag", Question(obj_id, tag, <<>>),
            get_object_tag(objects, ctl, obj_id, tag, None))

IterObjectTags ==
    \E obj_id \in ObjectIds[setup] :
        Ask("iter_object_tags", Question(obj_id, "", <<>>),
            iter_object_tags(objects, ctl, obj_id))

GetObjectPosition ==
    \E obj_id \in ObjectIds[setup] :
        Ask("get_object_position", Question(obj_id, "", <<>>),
            get_object_position(objects, ctl, obj_id))

Next ==
    \/ CloseGrasper
    \/ OpenGrasper
    \/ MoveGrasper
    \/ LowerGrasper
    \/ RaiseGrasper
    \/ SetDefaultGrasper
    \/ GrasperIsClosed
    \/ GrasperIsLowered
    \/ GetGraspedObject
    \/ FindObjects
    \/ GetObjectTag
    \/ IterObjectTags
    \/ GetObjectPosition

Spec == Init /\ [][Next]_vars

\* The two-grasper scene alone, driven by commands only and explored further.
InitDuet == InitOf({"duet"})

NextCommand ==
    \/ CloseGrasper
    \/ OpenGrasper
    \/ MoveGrasper
    \/ LowerGrasper
    \/ RaiseGrasper
    \/ SetDefaultGrasper

SpecDuet == InitDuet /\ [][NextCommand]_vars

(***************************************************************************)
(* The spatial predicates of PhysicalObject on their own: two objects are  *)
(* built at positions drawn from a grid, and find_highest_point and        *)
(* can_support are called on them.                                         *)
(***************************************************************************)
\* The objects drawn from, each at the origin: a box, a box and a block whose
\* can_support tag is false, two blocks, a pyramid whose tag is true and one
\* whose tag is false, a table.
Specimens ==
    << PhysicalObject("big_white_box", Color(255, 255, 255), Point(0, 0, 0),
           Tags([kind |-> "box", graspable |-> FALSE, can_support |-> TRUE])),
       PhysicalObject("big_white_box", Color(255, 255, 255), Point(0, 0, 0),
           Tags([kind |-> "box", graspable |-> FALSE, can_support |-> FALSE])),
       PhysicalObject("cube", Color(255, 0, 0), Point(0, 0, 0),
           Tags([kind |-> "block", graspable |-> TRUE, can_support |-> TRUE])),
       PhysicalObject("cube", Color(255, 0, 0), Point(0, 0, 0),
           Tags([kind |-> "block", graspable |-> TRUE, can_support |-> FALSE])),
       PhysicalObject("slab", Color(255, 0, 0), Point(0, 0, 0),
           Tags([kind |-> "block", graspable |-> TRUE, can_support |-> TRUE])),
       PhysicalObject("cone", Color(0, 255, 0), Point(0, 0, 0),
           Tags([kind |-> "pyramid", graspable |-> TRUE, can_support |-> TRUE])),
       PhysicalObject("cone", Color(0, 255, 0), Point(0, 0, 0),
           Tags([kind |-> "pyramid", graspable |-> TRUE, can_support |-> FALSE])),
       PhysicalObject("table", Color(0, 0, 0), Point(0, 0, 0),
           Tags([kind |-> "table", graspable |-> FALSE, can_support |-> TRUE])) >>

\* The grid of positions: 0.125 m off the centre of the 0.35 m box, a 0.1 m
\* block reaches the rim of the box, 0.15 m off it straddles the rim.
GridX == {0, 25, 30, 60}
GridY == {0, 30}
GridZ == {0, 20}
Grid == {Point(x, y, z) : x \in GridX, y \in GridY, z \in GridZ}

\* dataclasses.replace(obj, position=position)
Placed(obj, position) == [obj EXCEPT !.position = position]

\* The number of calls made on each pair of objects.
MaxStepsShapes == 1

\* The two objects of a call on a PhysicalObject: self and the argument (0
\* if the method takes none), as indexes.
Subject(self, obj) == [self |-> self, obj |-> obj]

InitShapes ==
    /\ setup = "shapes"
    /\ objects \in {<<Placed(Specimens[a], p), Placed(Specimens[b], q)>> :
                       a \in 1..Len(Specimens), b \in 1..Len(Specimens),
                       p \in Grid, q \in Grid}
    /\ ctl = Controller(grasper_distance_tolerance)
    /\ last = Call("__init__", ArgNone, ArgNone, ArgNone, 0, None, Returned)
    /\ steps = 0
    /\ script = -1
    /\ cycle = NoCycle
    /\ asked = NoQuestion
    /\ ret = None
    /\ viewer = NoViewer

\* One call of a method of PhysicalObject: it changes nothing.
Probe(op, subject, value) ==
    /\ steps < MaxStepsShapes
    /\ last' = Call(op, ArgNone, ArgNone, ArgNone, 0, None, Returned)
    /\ asked' = subject
    /\ ret' = value
    /\ steps' = steps + 1
    /\ UNCHANGED <<setup, objects, ctl, script, cycle, viewer>>

FindHighestPoint ==
    \E self \in 1..Len(objects) :
        Probe("find_highest_point", Subject(self, 0), find_highest_point(objects[self]))

CanSupport ==
    \E self \in 1..Len(objects), obj \in 1..Len(objects) :
        Probe("can_support", Subject(self, obj),
              Some(can_support(objects[self], objects[obj])))

NextShapes ==
    \/ FindHighestPoint
    \/ CanSupport

SpecShapes == InitShapes /\ [][NextShapes]_vars

(***************************************************************************)
(* is_below_point on its own: one object, built from one of the shape      *)
(* factories and placed on or off the origin, is asked about points around *)
(* the border of its footprint, at several heights.                        *)
(***************************************************************************)
\* The objects drawn from: one of each factory, square and oblong, and a
\* table of 12 m by 1 m, wide enough for inside_triangle's tolerance to
\* reach points of the grid outside it.
BelowSpecimens ==
    << PhysicalObject("grasper", Color(0, 0, 0), Point(0, 0, 0),
           Tags([kind |-> "grasper", closed |-> FALSE, lowered |-> FALSE])),
       PhysicalObject("table", Color(0, 0, 0), Point(0, 0, 0),
           Tags([kind |-> "table", graspable |-> FALSE, can_support |-> TRUE])),
       PhysicalObject("hall", Color(0, 0, 0), Point(0, 0, 0),
           Tags([kind |-> "table", graspable |-> FALSE, can_support |-> TRUE])),
       PhysicalObject("cube", Color(255, 0, 0), Point(0, 0, 0),
           Tags([kind |-> "block", graspable |-> TRUE, can_support |-> TRUE])),
       PhysicalObject("plank", Color(255, 0, 0), Point(0, 0, 0),
           Tags([kind |-> "block", graspable |-> TRUE, can_support |-> TRUE])),
       PhysicalObject("tray", Color(255, 255, 255), Point(0, 0, 0),
           Tags([kind |-> "box", graspable |-> FALSE, can_support |-> TRUE])),
       PhysicalObject("cone", Color(0, 255, 0), Point(0, 0, 0),
           Tags([kind |-> "pyramid", graspable |-> TRUE, can_support |-> FALSE])),
       PhysicalObject("wedge", Color(0, 255, 0), Point(0, 0, 0),
           Tags([kind |-> "pyramid", graspable |-> TRUE, can_support |-> FALSE])) >>

BelowPositions == {Point(0, 0, 0), Point(30, -10, 20)}

\* The points asked about, relative to the object's position: the centre,
\* the borders of the footprints and their corners, one step inside and
\* outside them, and up to three steps outside the widest table.  A step
\* is 5 mm; inside_triangle's tolerance reaches 6 mm outside a table of 12 m.
OffsetsX == {-1203, -1202, -1201, -1200, -100, -21, -20, -10, -5, 0, 10, 11, 20, 21,
             100, 101, 1200, 1201, 1202}
OffsetsY == {-101, -100, -11, -10, 0, 5, 10, 11, 100, 101}
OffsetsZ == {-20, 0, 20}
Offsets == {Point(x, y, z) : x \in OffsetsX, y \in OffsetsY, z \in OffsetsZ}

\* The object and the point of a call of is_below_point.
Above(self, point) == [self |-> self, obj |-> 0, point |-> point]

InitBelow ==
    /\ setup = "below"
    /\ objects \in {<<Placed(BelowSpecimens[a], p)>> :
                       a \in 1..Len(BelowSpecimens), p \in BelowPositions}
    /\ ctl = Controller(grasper_distance_tolerance)
    /\ last = Call("__init__", ArgNone, ArgNone, ArgNone, 0, None, Returned)
    /\ steps = 0
    /\ script = -1
    /\ cycle = NoCycle
    /\ asked = NoQuestion
    /\ ret = None
    /\ viewer = NoViewer

IsBelowPoint ==
    \E self \in 1..Len(objects), offset \in Offsets :
        Probe("is_below_point", Above(self, PointAdd(objects[self].position, offset)),
              Some(is_below_point(objects[self],
                                  PointAdd(objects[self].position, offset))))

NextBelow == IsBelowPoint

SpecBelow == InitBelow /\ [][NextBelow]_vars

(***************************************************************************)
(* The factories make_block and make_box on their own: each is called on a *)
(* width, a depth and a height drawn from a range of sizes.                *)
(***************************************************************************)
\* The sizes drawn from: the even numbers of units up to 2 * MaxSize, so
\* that the halves width / 2 and depth / 2 are exact.
MaxSize == 5
Sizes == {2 * k : k \in 1..MaxSize}

\* The arguments of a call of a factory.
Dimensions(width, depth, height) == [width |-> width, depth |-> depth, height |-> height]

InitFactories ==
    /\ setup = "factories"
    /\ objects = <<>>
    /\ ctl = Controller(grasper_distance_tolerance)
    /\ last = Call("__init__", ArgNone, ArgNone, ArgNone, 0, None, Returned)
    /\ steps = 0
    /\ script = -1
    /\ cycle = NoCycle
    /\ asked \in {Dimensions(width, depth, height) :
                     width \in Sizes, depth \in Sizes, height \in Sizes}
    /\ ret = None
    /\ viewer = NoViewer

MakeBlock ==
    Probe("make_block", asked, Some(make_block(asked.width, asked.depth, asked.height)))

MakeBox ==
    Probe("make_box", asked, Some(make_box(asked.width, asked.depth, asked.height)))

NextFactories ==
    \/ MakeBlock
    \/ MakeBox

SpecFactories == InitFactories /\ [][NextFactories]_vars

(***************************************************************************)
(* viewer.py: the Viewer's event loop and the threads it starts to run the *)
(* callback.  The user posts key presses to pygame's event queue;          *)
(* Viewer.run calls handle_events again and again, and each pass fetches   *)
(* the posted events and handles them in turn; each callback thread runs   *)
(* _run_callback.  The loop and the threads interleave between the loop's  *)
(* reads and writes of the Viewer's fields and the statements of           *)
(* _run_callback.  The callback is the caller's: it is entered, and it     *)
(* returns a text, returns None or raises.                                 *)
(***************************************************************************)
\* The number of events the user posts.
MaxKeys == 3

\* The events posted: pygame.QUIT, and pygame.KEYDOWN of these keys.
Keys == {"K_RETURN", "K_BACKSPACE", "K_a"}
Events == Keys \cup {"QUIT"}

\* A callback thread: where it is in _run_callback, and the input_text it
\* was started with (the number of characters typed).
CallbackThread(pc, input_text) == [pc |-> pc, input_text |-> input_text]

\* Viewer.__init__: the fields handle_events and _run_callback use, with
\* pygame's event queue, the events of the pass under way, the place of
\* Viewer.run in handle_events, and the threads started.
Viewer(callback) ==
    Some([callback |-> callback,
          input_text |-> 0,
          input_enabled |-> TRUE,
          input_queue |-> <<>>,
          output_queue |-> <<>>,
          output_text |-> "",
          events |-> <<>>,
          batch |-> <<>>,
          loop |-> "get",
          threads |-> <<>>,
          posted |-> 0])

\* The Viewer builds the standard scene and a Controller over it.
InitViewer ==
    /\ setup = "standard"
    /\ objects = Scenes[setup]
    /\ ctl = Controller(grasper_distance_tolerance)
    /\ last = Call("__init__", ArgNone, ArgNone, ArgNone, 0, None, Returned)
    /\ steps = 0
    /\ script = -1
    /\ cycle = NoCycle
    /\ asked = NoQuestion
    /\ ret = None
    /\ viewer \in {Viewer(callback) : callback \in BOOLEAN}

\* A step of the viewer: its fields become v; the callback is opaque, and
\* the scene and the controller are left as they are.
Shown(v) ==
    /\ viewer' = Some(v)
    /\ UNCHANGED <<setup, objects, ctl, last, steps, script, cycle, asked, ret>>

\* The user presses a key or closes the window.
Post ==
    \E event \in Events :
        /\ viewer[1].posted < MaxKeys
        /\ Shown([viewer[1] EXCEPT !.events = Append(@, event), !.posted = @ + 1])

\* handle_events, "for event in pygame.event.get()": the events posted so
\* far are taken off pygame's queue.
GetEvents ==
    /\ viewer[1].loop = "get"
    /\ Shown([viewer[1] EXCEPT !.batch = viewer[1].events, !.events = <<>>,
                               !.loop = "next"])

\* handle_events, the conditions on the next event: QUIT returns False and
\* ends Viewer.run; a KEYDOWN is handled if input is enabled; any other event
\* is passed over.  (The viewer's scene is set.)
CheckEvent ==
    /\ viewer[1].loop = "next"
    /\ viewer[1].batch # <<>>
    /\ Shown(IF Head(viewer[1].batch) = "QUIT"
             THEN [viewer[1] EXCEPT !.loop = "stopped"]
             ELSE IF viewer[1].input_enabled
             THEN [viewer[1] EXCEPT !.loop = "key"]
             ELSE [viewer[1] EXCEPT !.batch = Tail(@)])

\* "max(0, n - 1)": self._input_text[:-1] shortens a text that is not empty.
Shortened(n) == IF n > 0 THEN n - 1 ELSE 0

\* handle_events, the body for a KEYDOWN: RETURN takes the text typed and
\* starts a thread on it if there is a callback, else queues it; BACKSPACE
\* and the other keys edit the text.
KeyDown ==
    /\ viewer[1].loop = "key"
    /\ Shown(LET v == viewer[1]
                 key == Head(v.batch)
                 handled == [v EXCEPT !.batch = Tail(@), !.loop = "next"]
             IN  IF key = "K_RETURN"
                 THEN IF v.callback
                      THEN [handled EXCEPT
                               !.input_text = 0,
                               !.threads = Append(@, CallbackThread("started",
                                                                    v.input_text))]
                      ELSE [handled EXCEPT
                               !.input_text = 0,
                               !.input_queue = Append(@, v.input_text)]
                 ELSE IF key = "K_BACKSPACE"
                 THEN [handled EXCEPT !.input_text = Shortened(@)]
                 ELSE [handled EXCEPT !.input_text = @ + 1])

\* handle_events, after the loop: the oldest output queued is displayed, and
\* True is returned; Viewer.run redraws and calls handle_events again.
EndPass ==
    /\ viewer[1].loop = "next"
    /\ viewer[1].batch = <<>>
    /\ Shown(IF viewer[1].output_queue # <<>>
             THEN [viewer[1] EXCEPT !.output_text = Head(viewer[1].output_queue),
                                    !.output_queue = Tail(@), !.loop = "get"]
             ELSE [viewer[1] EXCEPT !.loop = "get"])

\* _run_callback, "self._input_enabled = False".
DisableInput ==
    \E t \in 1..Len(viewer[1].threads) :
        /\ viewer[1].threads[t].pc = "started"
        /\ Shown([viewer[1] EXCEPT !.input_enabled = FALSE,
                                   !.threads[t].pc = "disabled"])

\* _run_callback, "self._callback(self._controller, input_text)": the
\* callback is entered, and has the controller from here on.
EnterCallback ==
    \E t \in 1..Len(viewer[1].threads) :
        /\ viewer[1].threads[t].pc = "disabled"
        /\ Shown([viewer[1] EXCEPT !.threads[t].pc = "callback"])

\* _run_callback, the callback's return: a text is queued for display; None
\* queues nothing; an exception is logged.
LeaveCallback ==
    \E t \in 1..Len(viewer[1].threads), output_text \in {"None", "text", "raise"} :
        /\ viewer[1].threads[t].pc = "callback"
        /\ Shown(IF output_text = "text"
                 THEN [viewer[1] EXCEPT !.output_queue = Append(@, output_text),
                                        !.threads[t].pc = "finally"]
                 ELSE [viewer[1] EXCEPT !.threads[t].pc = "finally"])

\* _run_callback, "finally: self._input_enabled = True"; the thread ends.
EnableInput ==
    \E t \in 1..Len(viewer[1].threads) :
        /\ viewer[1].threads[t].pc = "finally"
        /\ Shown([viewer[1] EXCEPT !.input_enabled = TRUE,
                                   !.threads[t].pc = "finished"])

NextViewer ==
    \/ Post
    \/ GetEvents
    \/ CheckEvent
    \/ KeyDown
    \/ EndPass
    \/ DisableInput
    \/ EnterCallback
    \/ LeaveCallback
    \/ EnableInput

SpecViewer == InitViewer /\ [][NextViewer]_vars

(***************************************************************************)
(* Properties.                                                             *)
(***************************************************************************)

Graspers == {i \in 1..Len(objects) : objects[i].tags["kind"] = Some("grasper")}

\* The index of the object an Optional obj_id names (0 if there is none).
Named(id) ==
    IF \E i \in 1..Len(objects) : objects[i].tags["obj_id"] = id
    THEN CHOOSE i \in 1..Len(objects) : objects[i].tags["obj_id"] = id
    ELSE 0

\* Some grasper's grasped tag names the object at index o.
Held(o) == \E g \in Graspers : objects[g].tags["grasped"] = objects[o].tags["obj_id"]

\* The grasper the last call resolved, as it was before the call.
Before == last.old[1]

\* C1: in every reachable state, multi-grasper scenes included, an object's
\* grasped_by tag names a grasper exactly when that grasper's grasped tag
\* names the object.
GraspSymmetry ==
    \A g \in Graspers, o \in 1..Len(objects) :
        (objects[o].tags["grasped_by"] = objects[g].tags["obj_id"])
            <=> (objects[g].tags["grasped"] = objects[o].tags["obj_id"])

\* C2: every grasper is in one of the six legal states: closed and lowered
\* are flags, grasped is unset or names an object, and grasped is never set
\* while the grasper is open.
LegalGrasperStates ==
    \A g \in Graspers :
        /\ objects[g].tags["closed"] \in {None, Some(FALSE), Some(TRUE)}
        /\ objects[g].tags["lowered"] \in {None, Some(FALSE), Some(TRUE)}
        /\ objects[g].tags["grasped"] # None =>
               /\ Closed(objects[g])
               /\ Named(objects[g].tags["grasped"]) # 0

\* A grasper has been raised with an object in its grip.
RaisedHolding ==
    /\ last.op = "raise_grasper"
    /\ last.exc = Returned
    /\ objects[last.grasper].tags["grasped"] # None
    /\ ~Lowered(objects[last.grasper])

\* C3: open_grasper on a grasper that holds an object O succeeds only if the
\* grasper is lowered and O's resting_on names a target T with
\* T.can_support(O); when that does not hold the call raises
\* UnmetConditionError and O stays grasped.
NoFloat ==
    [][(/\ last'.op = "open_grasper"
        /\ last'.grasper # 0
        /\ objects[last'.grasper].tags["grasped"] # None)
       => LET g == last'.grasper
              o == Named(objects[g].tags["grasped"])
              t == Named(objects[o].tags["resting_on"])
              supported == /\ Lowered(objects[g])
                           /\ objects[o].tags["resting_on"] # None
                           /\ t # 0
                           /\ can_support(objects[t], objects[o])
          IN  /\ last'.exc = Returned => supported
              /\ ~supported =>
                     /\ last'.exc = UnmetConditionError
                     /\ objects'[g].tags["grasped"] = objects[g].tags["grasped"]
                     /\ objects'[o].tags["grasped_by"] = objects[o].tags["grasped_by"]
                     /\ Closed(objects'[g])]_vars

\* open_grasper has released a held object.
Released ==
    /\ last.op = "open_grasper"
    /\ last.exc = Returned
    /\ Before.tags["grasped"] # None
    /\ objects[last.grasper].tags["grasped"] = None

\* C4: a call that raises UnmetConditionError leaves the position and the
\* tags of every object as they were.
FailureAtomicity ==
    [][last'.exc = UnmetConditionError
       => \A i \in 1..Len(objects) :
              /\ objects'[i].position = objects[i].position
              /\ objects'[i].tags = objects[i].tags]_vars

\* move_grasper was refused for its y alone, both coordinates given, with an
\* object in the grip.
RefusedMoveWhileHolding ==
    /\ last.op = "move_grasper"
    /\ last.grasper # 0
    /\ last.exc = UnmetConditionError
    /\ last.x.t = "int" /\ last.y.t = "int"
    /\ ~Lowered(Before)
    /\ Before.tags["grasped"] # None
    /\ ~OutOfBounds(Before.tags, "min_x", "max_x", last.x.v)

\* C5: move_grasper on a lowered grasper raises UnmetConditionError whatever
\* numbers x and y are, given or omitted, and no position changes.
MoveOnlyWhenRaised ==
    [][(/\ last'.op = "move_grasper"
        /\ last'.grasper # 0
        /\ last'.x.t # "str" /\ last'.y.t # "str"
        /\ Lowered(objects[last'.grasper]))
       => /\ last'.exc = UnmetConditionError
          /\ \A i \in 1..Len(objects) : objects'[i].position = objects[i].position]_vars

\* move_grasper was refused on a lowered grasper for a target within bounds.
RefusedMoveWhenLowered ==
    /\ last.op = "move_grasper"
    /\ last.grasper # 0
    /\ last.exc = UnmetConditionError
    /\ Lowered(Before)
    /\ last.x.t = "int" /\ last.y.t = "none"
    /\ ~OutOfBounds(Before.tags, "min_x", "max_x", last.x.v)
    /\ last.x.v # Before.position[1]

\* v lies outside the bounds the tags give; an absent bound does not constrain.
Outside(tags, min_key, max_key, v) ==
    \/ tags[min_key] # None /\ v < tags[min_key][1]
    \/ tags[max_key] # None /\ v > tags[max_key][1]

\* C6: move_grasper on a raised grasper, with x or y given: if a given
\* coordinate lies outside its min/max tags (an absent tag not constraining)
\* it raises UnmetConditionError and neither coordinate changes, also when
\* the other coordinate is given and within bounds; otherwise it succeeds
\* and leaves the grasper at the given coordinates, a coordinate not given
\* and z staying as they were.
BoundsEnforcement ==
    [][(/\ last'.op = "move_grasper"
        /\ last'.grasper # 0
        /\ ~Lowered(objects[last'.grasper])
        /\ last'.x.t \in {"none", "int"} /\ last'.y.t \in {"none", "int"}
        /\ last'.x.t = "int" \/ last'.y.t = "int")
       => LET g == last'.grasper
              old == objects[g].position
              x == last'.x
              y == last'.y
          IN  IF \/ x.t = "int" /\ Outside(objects[g].tags, "min_x", "max_x", x.v)
                 \/ y.t = "int" /\ Outside(objects[g].tags, "min_y", "max_y", y.v)
              THEN /\ last'.exc = UnmetConditionError
                   /\ objects'[g].position = old
              ELSE /\ last'.exc = Returned
                   /\ objects'[g].position =
                          Point(IF x.t = "int" THEN x.v ELSE old[1],
                                IF y.t = "int" THEN y.v ELSE old[2],
                                old[3])]_vars

\* move_grasper has moved a grasper in y past where a max_y would lie, the
\* grasper having a min_y but no max_y.
MovedWhereUnbounded ==
    /\ last.op = "move_grasper"
    /\ last.exc = Returned
    /\ last.x.t = "none" /\ last.y.t = "int"
    /\ Before.tags["min_y"] # None /\ Before.tags["max_y"] = None
    /\ objects[last.grasper].position =
           Point(Before.position[1], last.y.v, Before.position[3])
    /\ last.y.v # Before.position[2]

\* C7: every resting_on tag that is set names an object of the scene whose
\* can_support flag is true.
RestingOnSupporter ==
    \A o \in 1..Len(objects) :
        objects[o].tags["resting_on"] # None =>
            /\ Named(objects[o].tags["resting_on"]) # 0
            /\ Get(objects[Named(objects[o].tags["resting_on"])].tags,
                   "can_support", FALSE)

\* C7 as the code has it: every resting_on tag that is set names an object of
\* the scene, and that object's can_support flag is true unless the tag is a
\* grasper's or that of an object some grasper holds.
RestingOnSupporterWhenFree ==
    \A o \in 1..Len(objects) :
        objects[o].tags["resting_on"] # None =>
            /\ Named(objects[o].tags["resting_on"]) # 0
            /\ (o \notin Graspers /\ ~Held(o)) =>
                   Get(objects[Named(objects[o].tags["resting_on"])].tags,
                       "can_support", FALSE)

\* An object has been set down on another support than the scene gave it
\* and released, and a grasper rests on an object that supports nothing.
SetDownElsewhere ==
    /\ \E o \in 1..Len(objects) \ Graspers :
           /\ ~Held(o)
           /\ objects[o].tags["resting_on"] # None
           /\ objects[o].tags["resting_on"] # Scenes[setup][o].tags["resting_on"]
    /\ \E g \in Graspers :
           /\ objects[g].tags["resting_on"] # None
           /\ ~Get(objects[Named(objects[g].tags["resting_on"])].tags,
                   "can_support", FALSE)

\* C8: for every object O that is not a grasper and that no grasper holds,
\* with resting_on = T, T.can_support(O) holds at the current positions; an
\* object T cannot be grasped and carried away while another object still
\* has resting_on = T.
SupportBeneath ==
    \A o \in 1..Len(objects) \ Graspers :
        (~Held(o) /\ objects[o].tags["resting_on"] # None) =>
            /\ Named(objects[o].tags["resting_on"]) # 0
            /\ can_support(objects[Named(objects[o].tags["resting_on"])], objects[o])

\* The highest top among the objects that are no graspers and that no
\* grasper holds, the ground (0) if there is none above it.
StableTop ==
    LET tops == {0} \cup {find_highest_point(objects[i])[1][3] :
                              i \in {j \in 1..Len(objects) \ Graspers :
                                        objects[j].tags["grasped_by"] = None}}
    IN  CHOOSE m \in tops : \A t \in tops : t <= m

\* C9: lower_grasper then raise_grasper on a grasper that is raised and holds
\* nothing leaves the grasper's z at or above its z before the two calls.
LowerRaiseKeepsHeight ==
    cycle.phase = "raised" => objects[cycle.grasper].position[3] >= cycle.z

\* C9 as the code has it: lower_grasper then raise_grasper on a grasper that
\* is raised and holds nothing leaves the grasper 0.1 m above the highest top
\* of the objects no grasper holds, which is at or above its z before the
\* two calls only if that z was no higher than this.
LowerRaiseReachesClearance ==
    cycle.phase = "raised" =>
        /\ objects[cycle.grasper].position[3] = StableTop + RaiseClearance
        /\ (objects[cycle.grasper].position[3] >= cycle.z)
               <=> (cycle.z <= StableTop + RaiseClearance)

\* The standard scene's grasper has been lowered and raised from its initial
\* state and stands lower than it did.
LoweredAndRaisedFromStart ==
    /\ setup = "standard"
    /\ steps = 2
    /\ cycle.phase = "raised"
    /\ cycle.z = Scenes[setup][cycle.grasper].position[3]
    /\ objects[cycle.grasper].position[3] < cycle.z

\* C10: the pick-and-place scenario run on the standard scene ends with the
\* big red block at the new (x, y), its grasped_by unset and its resting_on
\* naming the object beneath that (x, y).
ScenarioMovesBlock ==
    script = Len(PickAndPlace) =>
        LET block == objects[3]
        IN  /\ block.position[1] = PickAndPlace[5].x.v
            /\ block.position[2] = PickAndPlace[1].y.v
            /\ block.tags["grasped_by"] = None
            /\ block.tags["resting_on"] # None
            /\ is_below_point(objects[Named(block.tags["resting_on"])], block.position)

\* C10 as the code has it: the scenario's lower_grasper stops on the medium
\* green block that lies on the big red block, off that block's centre, so
\* nothing is grasped: every call returns, the big red block ends where it
\* began, on the table, its grasped_by unset, and the grasper ends open,
\* lowered and empty on the ground at the new (x, y).
ScenarioLeavesBlock ==
    script = Len(PickAndPlace) =>
        /\ last.exc = Returned
        /\ \A o \in 2..Len(objects) : objects[o] = make_standard_scene[o]
        /\ objects[3].position = Point(-60, 20, 0)
        /\ objects[3].tags["resting_on"] = objects[2].tags["obj_id"]
        /\ objects[3].tags["grasped_by"] = None
        /\ objects[1].position = Point(PickAndPlace[5].x.v, PickAndPlace[1].y.v, 0)
        /\ Lowered(objects[1]) /\ ~Closed(objects[1])
        /\ objects[1].tags["grasped"] = None

\* The scenario has run to its end.
ScenarioDone ==
    /\ script = Len(PickAndPlace)
    /\ last.op = "open_grasper"
    /\ steps = Len(PickAndPlace)

\* The objects no grasper holds (grasped_by unset) that are directly beneath
\* the grasper at index g.
Beneath(g) ==
    {i \in 1..Len(objects) :
        /\ objects[i].tags["grasped_by"] = None
        /\ is_below_point(objects[i], objects[g].position)}

\* C11: when a grasper that holds an object O has been lowered where no
\* unheld object is beneath it, or where the highest unheld object beneath it
\* cannot support O, the open_grasper that follows raises UnmetConditionError
\* and O stays grasped.
HeldDropRefused ==
    [][(/\ last.op = "lower_grasper"
        /\ last.exc = Returned
        /\ Before.tags["grasped"] # None
        /\ last'.op = "open_grasper"
        /\ last'.grasper = last.grasper)
       => LET g == last.grasper
              o == Named(objects[g].tags["grasped"])
              target == _find_object_below_grasper(objects, g)[1]
          IN  (\/ Beneath(g) = {}
               \/ target # 0 /\ ~can_support(objects[target], objects[o]))
              => /\ last'.exc = UnmetConditionError
                 /\ objects'[g].tags["grasped"] = objects[g].tags["grasped"]
                 /\ objects'[o].tags["grasped_by"] = objects[o].tags["grasped_by"]
                 /\ Closed(objects'[g])]_vars

\* open_grasper was refused on a grasper lowered, with an object in its
\* grip, where nothing is beneath it.
DropOverGroundRefused ==
    /\ last.op = "open_grasper"
    /\ last.exc = UnmetConditionError
    /\ last.grasper # 0
    /\ Lowered(Before)
    /\ Before.tags["grasped"] # None
    /\ objects[last.grasper].tags["grasped"] = Before.tags["grasped"]
    /\ Beneath(last.grasper) = {}

\* C12: a close_grasper that returns leaves the grasper closed; if the
\* grasper is lowered and its resting_on names a graspable object O, whatever
\* O's obj_id (0 included), it leaves grasped(G) = O and grasped_by(O) = G;
\* otherwise it changes no grasped and no grasped_by tag.
CloseGraspRule ==
    [][(last'.op = "close_grasper" /\ last'.exc = Returned)
       => LET g == last'.grasper
              resting_on_id == objects[g].tags["resting_on"]
              o == Named(resting_on_id)
          IN  /\ Closed(objects'[g])
              /\ IF /\ Lowered(objects[g])
                    /\ resting_on_id # None
                    /\ o # 0
                    /\ Get(objects[o].tags, "graspable", FALSE)
                 THEN /\ objects'[g].tags["grasped"] = resting_on_id
                      /\ objects'[o].tags["grasped_by"] = objects[g].tags["obj_id"]
                 ELSE \A i \in 1..Len(objects) :
                          /\ objects'[i].tags["grasped"] = objects[i].tags["grasped"]
                          /\ objects'[i].tags["grasped_by"] = objects[i].tags["grasped_by"]]_vars

\* C13: close_grasper on a grasper it has resolved raises UnmetConditionError
\* exactly when that grasper is closed already, and then changes no tag of
\* any object; so the second of two close_grasper calls in a row raises it.
CloseOnlyWhenOpen ==
    [][(last'.op = "close_grasper" /\ last'.grasper # 0)
       => /\ (last'.exc = UnmetConditionError) <=> Closed(objects[last'.grasper])
          /\ Closed(objects[last'.grasper]) =>
                 \A i \in 1..Len(objects) : objects'[i].tags = objects[i].tags
          /\ (/\ last.op = "close_grasper"
              /\ last.exc = Returned
              /\ last.grasper = last'.grasper) => last'.exc = UnmetConditionError]_vars

\* close_grasper has been called twice in a row from the start, and the
\* second call was refused.
ClosedTwice ==
    /\ steps = 2
    /\ last.op = "close_grasper"
    /\ last.exc = UnmetConditionError
    /\ last.grasper # 0
    /\ Closed(Before)

\* The object at index o, held by the grasper at index g, can be released:
\* the grasper is lowered and o's resting_on names an object that can
\* support o.
Releasable(g, o) ==
    /\ Lowered(objects[g])
    /\ objects[o].tags["resting_on"] # None
    /\ Named(objects[o].tags["resting_on"]) # 0
    /\ can_support(objects[Named(objects[o].tags["resting_on"])], objects[o])

\* C14: open_grasper on a grasper it has resolved raises UnmetConditionError
\* exactly when that grasper is open, or holds an object that cannot be
\* released; on a closed grasper that holds nothing it returns, raised or
\* lowered, and changes nothing but that grasper's closed tag, to false.
OpenRefusals ==
    [][(last'.op = "open_grasper" /\ last'.grasper # 0)
       => LET g == last'.grasper
              holding == objects[g].tags["grasped"] # None
          IN  /\ (last'.exc = UnmetConditionError)
                     <=> \/ ~Closed(objects[g])
                         \/ /\ holding
                            /\ ~Releasable(g, Named(objects[g].tags["grasped"]))
              /\ (Closed(objects[g]) /\ ~holding) =>
                     /\ last'.exc = Returned
                     /\ objects' = [objects EXCEPT ![g].tags["closed"] = Some(FALSE)]]_vars

\* open_grasper has opened a lowered grasper that was closed on nothing.
OpenedEmptyLowered ==
    /\ last.op = "open_grasper"
    /\ last.exc = Returned
    /\ Closed(Before)
    /\ Lowered(Before)
    /\ Before.tags["grasped"] = None
    /\ ~Closed(objects[last.grasper])

\* C15: an open_grasper that returns on a grasper G holding O clears
\* grasped(G) and grasped_by(O) and sets G's closed to false; the positions of
\* G and O, O's resting_on, G's lowered and every other object stay as they
\* were.
OpenReleases ==
    [][(/\ last'.op = "open_grasper"
        /\ last'.exc = Returned
        /\ objects[last'.grasper].tags["grasped"] # None)
       => LET g == last'.grasper
              o == Named(objects[g].tags["grasped"])
          IN  objects' = [objects EXCEPT ![g].tags["grasped"] = None,
                                         ![g].tags["closed"] = Some(FALSE),
                                         ![o].tags["grasped_by"] = None]]_vars

\* open_grasper has released an object away from where the scene had it.
ReleasedElsewhere ==
    /\ last.op = "open_grasper"
    /\ last.exc = Returned
    /\ Before.tags["grasped"] # None
    /\ LET o == Named(Before.tags["grasped"])
       IN  /\ objects[o].tags["grasped_by"] = None
           /\ objects[o].tags["resting_on"] # None
           /\ objects[o].position # Scenes[setup][o].position
    /\ Lowered(objects[last.grasper])
    /\ ~Closed(objects[last.grasper])

\* C16: a move_grasper that returns puts the grasper at the given x and y (an
\* omitted coordinate and z as they were) and, if the grasper holds an object,
\* puts that object at the grasper's new (x, y), as far below the grasper as it
\* was before the move; no tag changes and no other object moves.  A
\* move_grasper given neither x nor y raises UnmetConditionError.
MoveFrame ==
    [][(last'.op = "move_grasper" /\ last'.grasper # 0)
       => LET g == last'.grasper
              old == objects[g].position
              new == Point(IF last'.x.t = "int" THEN last'.x.v ELSE old[1],
                           IF last'.y.t = "int" THEN last'.y.v ELSE old[2],
                           old[3])
              o == Named(objects[g].tags["grasped"])
          IN  /\ (last'.x.t = "none" /\ last'.y.t = "none") =>
                     last'.exc = UnmetConditionError
              /\ last'.exc = Returned =>
                     /\ objects'[g].position = new
                     /\ \A i \in 1..Len(objects) :
                            /\ objects'[i].tags = objects[i].tags
                            /\ i \notin {g, o} => objects'[i].position = objects[i].position
                     /\ o # 0 =>
                            objects'[o].position =
                                Point(new[1], new[2],
                                      new[3] - (old[3] - objects[o].position[3]))]_vars

\* The z of the highest point of the object at index i.
Top(i) == find_highest_point(objects[i])[1][3]

\* The greatest top among the objects of set below, the ground (0) if there
\* is none.
Highest(below) ==
    IF below = {} THEN 0
    ELSE CHOOSE h \in {Top(i) : i \in below} : \A i \in below : Top(i) <= h

\* The height lower_grasper comes down to over the grasper at index g: the
\* greatest top among the unheld objects beneath it.
LandingHeight(g) == Highest(Beneath(g))

\* The last object in storage order, among those of set below, whose top is
\* at height h.
LastAt(below, h) ==
    CHOOSE i \in below : Top(i) = h /\ \A j \in below : Top(j) = h => j <= i

\* The object lower_grasper comes down on: the highest of the unheld objects
\* beneath the grasper, the last in storage order among equals.
LandingTarget(g) == LastAt(Beneath(g), LandingHeight(g))

\* C17: lower_grasper on a raised grasper that holds nothing returns and
\* leaves the grasper lowered, at its x and y, its z the greatest top of the
\* objects no grasper holds that are directly beneath it, or 0 when there is
\* none; lower_grasper on a lowered grasper raises UnmetConditionError.
LowerEmptyLands ==
    [][(last'.op = "lower_grasper" /\ last'.grasper # 0)
       => LET g == last'.grasper
          IN  /\ Lowered(objects[g]) => last'.exc = UnmetConditionError
              /\ (~Lowered(objects[g]) /\ objects[g].tags["grasped"] = None) =>
                     /\ last'.exc = Returned
                     /\ objects'[g].position =
                            Point(objects[g].position[1], objects[g].position[2],
                                  LandingHeight(g))
                     /\ Lowered(objects'[g])]_vars

\* An empty grasper has come down on the top of a stack of two objects on the
\* table.
LoweredOntoStack ==
    /\ last.op = "lower_grasper"
    /\ last.exc = Returned
    /\ Before.tags["grasped"] = None
    /\ Cardinality(Beneath(last.grasper)) >= 3
    /\ objects[last.grasper].position[3] = LandingHeight(last.grasper)
    /\ \E i \in Beneath(last.grasper) : 0 < Top(i) /\ Top(i) < LandingHeight(last.grasper)

\* The objects at indexes i and j are within the controller's distance
\* tolerance of each other, horizontally.
Centred(i, j) ==
    LET dx == objects[i].position[1] - objects[j].position[1]
        dy == objects[i].position[2] - objects[j].position[2]
    IN  dx * dx + dy * dy <= ctl.tolerance * ctl.tolerance

\* C18: after lower_grasper on a grasper that holds nothing, the grasper's
\* resting_on names the target found beneath it if the grasper is within the
\* distance tolerance of the target's position, horizontally, and is unset
\* if it is not or if there is no target; a close_grasper that follows a
\* touch-down that left resting_on unset grasps nothing.
ToleranceGate ==
    [][/\ (/\ last'.op = "lower_grasper"
           /\ last'.exc = Returned
           /\ objects[last'.grasper].tags["grasped"] = None)
          => LET g == last'.grasper
             IN  objects'[g].tags["resting_on"] =
                     IF Beneath(g) # {} /\ Centred(g, LandingTarget(g))
                     THEN objects[LandingTarget(g)].tags["obj_id"]
                     ELSE None
       /\ (/\ last.op = "lower_grasper"
           /\ last.exc = Returned
           /\ Before.tags["grasped"] = None
           /\ objects[last.grasper].tags["resting_on"] = None
           /\ last'.op = "close_grasper"
           /\ last'.grasper = last.grasper)
          => \A i \in 1..Len(objects) :
                 /\ objects'[i].tags["grasped"] = objects[i].tags["grasped"]
                 /\ objects'[i].tags["grasped_by"] = objects[i].tags["grasped_by"]]_vars

\* A grasper has touched down off the centre of a graspable object, its
\* resting_on was left unset, and the close_grasper that followed grasped
\* nothing.
ClosedOffCentre ==
    /\ last.op = "close_grasper"
    /\ last.exc = Returned
    /\ Lowered(Before)
    /\ Before.tags["resting_on"] = None
    /\ objects[last.grasper].tags["grasped"] = None
    /\ Beneath(last.grasper) # {}
    /\ Get(objects[LandingTarget(last.grasper)].tags, "graspable", FALSE)
    /\ ~Centred(last.grasper, LandingTarget(last.grasper))
    /\ objects[last.grasper].position[3] = LandingHeight(last.grasper)

\* C19: lower_grasper on a raised grasper that holds O returns and leaves O
\* and the grasper at the grasper's x and y, O's z at the greatest top of the
\* unheld objects beneath the grasper (0 when there is none), the grasper's z
\* above that by O's own height, and, whenever there is such an object, O's
\* resting_on naming the target, however far from the target's centre.
LowerHeldLands ==
    [][(/\ last'.op = "lower_grasper"
        /\ last'.grasper # 0
        /\ ~Lowered(objects[last'.grasper])
        /\ objects[last'.grasper].tags["grasped"] # None)
       => LET g == last'.grasper
              o == Named(objects[g].tags["grasped"])
              x == objects[g].position[1]
              y == objects[g].position[2]
          IN  /\ last'.exc = Returned
              /\ objects'[o].position = Point(x, y, LandingHeight(g))
              /\ objects'[g].position =
                     Point(x, y, LandingHeight(g) + (Top(o) - objects[o].position[3]))
              /\ Beneath(g) # {} =>
                     objects'[o].tags["resting_on"] =
                         objects[LandingTarget(g)].tags["obj_id"]
              /\ Lowered(objects'[g])]_vars

\* A held object has been set down away from the centre of what is beneath
\* it, and its resting_on names that object.
SetDownOffCentre ==
    /\ last.op = "lower_grasper"
    /\ last.exc = Returned
    /\ Before.tags["grasped"] # None
    /\ Beneath(last.grasper) # {}
    /\ ~Centred(last.grasper, LandingTarget(last.grasper))
    /\ objects[Named(Before.tags["grasped"])].tags["resting_on"] =
           objects[LandingTarget(last.grasper)].tags["obj_id"]
    /\ objects[Named(Before.tags["grasped"])].position[3] =
           LandingHeight(last.grasper)

\* C20: a raise_grasper on a lowered grasper returns and leaves the grasper,
\* if it holds nothing, or else the base of the object it holds, the grasper
\* then being at that object's top, at the highest stable point plus the
\* clearance: the greatest top among the objects that are no graspers and
\* that no grasper holds.  The grasper and the held object end above every
\* such object.  raise_grasper on a raised grasper raises
\* UnmetConditionError.
RaiseReachesClearance ==
    [][(last'.op = "raise_grasper" /\ last'.grasper # 0)
       => LET g == last'.grasper
              o == Named(objects[g].tags["grasped"])
              x == objects[g].position[1]
              y == objects[g].position[2]
              stable == {i \in 1..Len(objects) \ (Graspers \cup {o}) :
                            objects[i].tags["grasped_by"] = None}
          IN  IF ~Lowered(objects[g]) THEN last'.exc = UnmetConditionError
              ELSE /\ last'.exc = Returned
                   /\ ~Lowered(objects'[g])
                   /\ \A i \in stable : objects'[g].position[3] > Top(i)
                   /\ IF o = 0
                      THEN objects'[g].position =
                               Point(x, y, StableTop + RaiseClearance)
                      ELSE /\ objects'[o].position =
                                  Point(x, y, StableTop + RaiseClearance)
                           /\ objects'[g].position =
                                  Point(x, y, find_highest_point(objects'[o])[1][3])
                           /\ \A i \in stable : objects'[o].position[3] > Top(i)]_vars

\* A grasper has been raised with an object whose base now clears a stable
\* object that stands higher than the ground.
RaisedHeldToClearance ==
    /\ last.op = "raise_grasper"
    /\ last.exc = Returned
    /\ Lowered(Before)
    /\ Before.tags["grasped"] # None
    /\ StableTop > 0
    /\ objects[Named(Before.tags["grasped"])].position[3] = StableTop + RaiseClearance
    /\ objects[last.grasper].position[3] > StableTop + RaiseClearance

\* C21 as stated: after every raise_grasper that returns, the grasper's own
\* resting_on tag is unset, and so is that of the object it holds, if any.
RaiseClearsBoth ==
    [][(last'.op = "raise_grasper" /\ last'.exc = Returned)
       => LET g == last'.grasper
              o == Named(objects'[g].tags["grasped"])
          IN  /\ objects'[g].tags["resting_on"] = None
              /\ o # 0 => objects'[o].tags["resting_on"] = None]_vars

\* C21: after a raise_grasper that returns, a grasper that holds nothing has
\* no resting_on tag; the object a grasper holds has no resting_on tag, while
\* the grasper's own resting_on tag is what it was before the call, the id
\* of the object it holds.
RaiseClearsRestingOn ==
    [][(last'.op = "raise_grasper" /\ last'.exc = Returned)
       => LET g == last'.grasper
              o == Named(objects'[g].tags["grasped"])
          IN  /\ objects'[g].tags["grasped"] = objects[g].tags["grasped"]
              /\ IF o = 0
                 THEN objects'[g].tags["resting_on"] = None
                 ELSE /\ objects'[o].tags["resting_on"] = None
                      /\ objects'[g].tags["resting_on"] = objects[g].tags["resting_on"]
                      /\ objects'[g].tags["resting_on"] = objects[g].tags["grasped"]]_vars

\* A grasper has been raised with the object it holds: the object rested on
\* something before the call and no longer does, and the grasper's resting_on
\* tag still names the object.
RaisedHeldKeepsOwnSupport ==
    /\ last.op = "raise_grasper"
    /\ last.exc = Returned
    /\ Before.tags["grasped"] # None
    /\ objects[Named(Before.tags["grasped"])].tags["resting_on"] = None
    /\ objects[last.grasper].tags["resting_on"] = Before.tags["grasped"]
    /\ objects[last.grasper].tags["resting_on"] # None

\* The tags the commands write.
CommandTags == {"closed", "lowered", "grasped", "grasped_by", "resting_on"}

\* C22: whatever calls the controller has served, the scene holds the objects
\* it was built with, in the same order, and each object has the shape, the
\* color and every tag it was built with (obj_id, kind, graspable and
\* can_support among them) but for closed, lowered, grasped, grasped_by and
\* resting_on: the calls change positions and these five tags only.
FixedScene ==
    /\ Len(objects) = Len(Scenes[setup])
    /\ \A i \in 1..Len(objects) :
          /\ objects[i].shape = Scenes[setup][i].shape
          /\ objects[i].color = Scenes[setup][i].color
          /\ \A k \in TagKeys \ CommandTags :
                objects[i].tags[k] = Scenes[setup][i].tags[k]

\* A lowered grasper holds an object that it has carried to another place and
\* set down on another support: positions and all five tags have changed.
CarriedElsewhere ==
    \E g \in Graspers :
        LET o == Named(objects[g].tags["grasped"])
        IN  /\ o # 0
            /\ Lowered(objects[g])
            /\ Closed(objects[g])
            /\ objects[o].tags["grasped_by"] = objects[g].tags["obj_id"]
            /\ objects[o].position # Scenes[setup][o].position
            /\ objects[g].position # Scenes[setup][g].position
            /\ objects[o].tags["resting_on"] # None
            /\ objects[o].tags["resting_on"] # Scenes[setup][o].tags["resting_on"]

\* The queries of the controller.
QueryOps == {"grasper_is_closed", "grasper_is_lowered", "get_grasped_object",
             "find_objects", "get_object_tag", "iter_object_tags",
             "get_object_position"}

\* C23: a query, whether it returns or raises, leaves every object as it was,
\* position and tags; of the controller it may change the grasper cache and
\* the default grasper only.
QueriesReadOnly ==
    [][last'.op \in QueryOps
       => /\ objects' = objects
          /\ ctl'.tolerance = ctl.tolerance]_vars

\* A query naming its grasper has returned the object the grasper holds, and
\* the grasper sits in the cache under the id the query gave.
AskedWhileHolding ==
    /\ last.op = "get_grasped_object"
    /\ last.exc = Returned
    /\ last.grasper_id.t = "int"
    /\ last.grasper_id.v \in DOMAIN ctl.grasper_cache
    /\ ret # None
    /\ ret = objects[last.grasper].tags["grasped"]
    /\ objects[Named(ret)].tags["grasped_by"] = objects[last.grasper].tags["obj_id"]

\* The calls that take a grasper id, and those that take an object id.
GrasperOps == {"close_grasper", "open_grasper", "move_grasper", "lower_grasper",
               "raise_grasper", "default_grasper", "grasper_is_closed",
               "grasper_is_lowered", "get_grasped_object"}
ObjectOps == {"get_object_tag", "iter_object_tags", "get_object_position"}

\* C24: a call whose arguments are of the right types raises
\* UnmetConditionError when it gives a grasper id that names no object of the
\* scene or names an object whose kind is not grasper, when it is
\* get_object_tag, iter_object_tags or get_object_position and gives an
\* object id that names no object, and when it gives no grasper id to a
\* command or grasper query in a scene that has no grasper.
ResolutionFailures ==
    [][/\ (/\ last'.op \in GrasperOps
           /\ last'.x.t # "str" /\ last'.y.t # "str"
           /\ \/ /\ last'.grasper_id.t = "int"
                 /\ Named(Some(last'.grasper_id.v)) \notin Graspers
              \/ /\ last'.grasper_id.t = "none"
                 /\ Graspers = {})
          => last'.exc = UnmetConditionError
       /\ (/\ last'.op \in ObjectOps
           /\ asked'.obj_id.t = "int"
           /\ Named(Some(asked'.obj_id.v)) = 0)
          => last'.exc = UnmetConditionError]_vars

\* A command has named the block as its grasper, after a default grasper was
\* chosen, and was refused.
NamedTheBlock ==
    /\ last.op = "lower_grasper"
    /\ last.grasper_id.t = "int"
    /\ Named(Some(last.grasper_id.v)) # 0
    /\ Named(Some(last.grasper_id.v)) \notin Graspers
    /\ ctl.default_grasper # None
    /\ last.exc = UnmetConditionError

\* The objects a call on the grasper g may change: g itself, the object it
\* holds and the object its resting_on tag names.
Reach(g) ==
    {g, Named(objects[g].tags["grasped"]), Named(objects[g].tags["resting_on"])}

\* C25: the default grasper, unset at first, is chosen by the first call that
\* resolves a grasper: the grasper an explicit id names, or a grasper of the
\* scene when the id is omitted.  Once chosen it changes only by a
\* default_grasper assignment that returns, which makes it the grasper
\* named; an assignment that raises leaves it as it was.  Every call that
\* omits the grasper id then acts on the default grasper: it changes no
\* object out of that grasper's reach, a move or a raise carries to that
\* grasper's x, y the object it holds, and a grasper query answers with that
\* grasper's tag.
StickyDefault ==
    [][LET typed == last'.x.t # "str" /\ last'.y.t # "str"
           id == last'.grasper_id
           chosen == ctl.default_grasper
       IN  /\ (chosen # None /\ ~(last'.op = "default_grasper" /\ last'.exc = Returned))
                 => ctl'.default_grasper = chosen
           /\ (last'.op = "default_grasper" /\ last'.exc = Returned /\ id.t = "int")
                 => ctl'.default_grasper = Some(Named(Some(id.v)))
           /\ (last'.op = "default_grasper" /\ last'.exc # Returned)
                 => ctl'.default_grasper = chosen
           /\ (chosen = None /\ last'.op \in GrasperOps /\ typed /\ id.t = "int"
                  /\ Named(Some(id.v)) \in Graspers)
                 => ctl'.default_grasper = Some(Named(Some(id.v)))
           /\ (chosen = None /\ last'.op \in GrasperOps /\ typed /\ id.t = "none"
                  /\ Graspers # {})
                 => /\ ctl'.default_grasper # None
                    /\ ctl'.default_grasper[1] \in Graspers
           /\ (chosen # None /\ last'.op \in GrasperOps /\ id.t = "none")
                 => /\ \A i \in 1..Len(objects) \ Reach(chosen[1]) :
                          objects'[i] = objects[i]
                    /\ (last'.op = "move_grasper" /\ last'.exc = Returned)
                          => /\ last'.x.t = "int"
                                => objects'[chosen[1]].position[1] = last'.x.v
                             /\ last'.y.t = "int"
                                => objects'[chosen[1]].position[2] = last'.y.v
                    /\ (last'.op = "lower_grasper" /\ last'.exc = Returned)
                          => Lowered(objects'[chosen[1]])
                    /\ (last'.op = "raise_grasper" /\ last'.exc = Returned)
                          => ~Lowered(objects'[chosen[1]])
                    /\ (last'.op = "close_grasper" /\ last'.exc = Returned)
                          => Closed(objects'[chosen[1]])
                    /\ (last'.op = "open_grasper" /\ last'.exc = Returned)
                          => ~Closed(objects'[chosen[1]])
                    /\ last'.op = "grasper_is_closed"
                          => ret' = Some(Closed(objects[chosen[1]]))
                    /\ last'.op = "grasper_is_lowered"
                          => ret' = Some(Lowered(objects[chosen[1]]))
                    /\ last'.op = "get_grasped_object"
                          => ret' = objects[chosen[1]].tags["grasped"]]_vars

\* The second grasper of the scene became the default by a call that named
\* it; the first grasper has since been lowered by a call that named it, and
\* now a lower_grasper without id has lowered the second.
DefaultOutlastsNamedCall ==
    /\ last.op = "lower_grasper"
    /\ last.grasper_id = ArgNone
    /\ last.exc = Returned
    /\ Cardinality(Graspers) = 2
    /\ ctl.default_grasper # None
    /\ \E g \in Graspers :
          /\ g < ctl.default_grasper[1]
          /\ Lowered(objects[g])
    /\ last.grasper = ctl.default_grasper[1]
    /\ ~Lowered(Before)
    /\ Lowered(objects[ctl.default_grasper[1]])

\* C26: a call raises TypeError and leaves every object, the default grasper
\* and the grasper cache as they were when x or y of move_grasper is no
\* number, when the grasper id of a command or grasper query is given and is
\* no integer, and when the object id of get_object_tag, iter_object_tags or
\* get_object_position is no integer.
MalformedArgumentRaises ==
    [][(\/ last'.op = "move_grasper" /\ (last'.x.t = "str" \/ last'.y.t = "str")
        \/ last'.op \in GrasperOps /\ last'.grasper_id.t = "str"
        \/ last'.op \in ObjectOps /\ asked'.obj_id.t # "int")
       => /\ last'.exc = TypeError
          /\ objects' = objects
          /\ ctl' = ctl]_vars

\* A move_grasper with an x that is no number has named a grasper that the
\* cache does not hold yet, after a default grasper was chosen and lowered.
MalformedMoveOnNewGrasper ==
    /\ last.op = "move_grasper"
    /\ last.x.t = "str"
    /\ last.grasper_id.t = "int"
    /\ Named(Some(last.grasper_id.v)) \in Graspers
    /\ last.grasper_id.v \notin DOMAIN ctl.grasper_cache
    /\ last.exc = TypeError
    /\ ctl.default_grasper # None
    /\ Lowered(objects[ctl.default_grasper[1]])

\* The indexes of the objects whose tags equal the filter on each of its
\* keys, a missing tag being equal to None only.
Matching(filters) ==
    {i \in 1..Len(objects) :
        \A k \in DOMAIN filters : objects[i].tags[k] = filters[k]}

\* The n-th index of a set of indexes, in increasing order.
Nth(indexes, n) == CHOOSE i \in indexes : Cardinality({j \in indexes : j < i}) = n - 1

\* C27: find_objects returns and yields the obj_id of each object whose tags
\* equal the filter on every key given, once each and in storage order; with
\* no filter these are all the objects of the scene.  The scene is left as
\* it was.
FindObjectsMatches ==
    [][last'.op = "find_objects"
       => LET match == Matching(asked'.filters)
          IN  /\ last'.exc = Returned
              /\ ret' # None
              /\ Len(ret'[1]) = Cardinality(match)
              /\ \A n \in 1..Len(ret'[1]) :
                    Some(ret'[1][n]) = objects[Nth(match, n)].tags["obj_id"]
              /\ DOMAIN asked'.filters = {} => Len(ret'[1]) = Len(objects)
              /\ objects' = objects]_vars

\* A filter of two tags, one of them a tag that the commands write, has
\* singled out one object of the scene while another has only one of the
\* two tag values.
FoundByTwoTags ==
    /\ last.op = "find_objects"
    /\ DOMAIN asked.filters = {"color", "lowered"}
    /\ ret # None
    /\ Len(ret[1]) = 1
    /\ \E i \in 1..Len(objects) :
          /\ objects[i].tags["color"] = asked.filters["color"]
          /\ objects[i].tags["lowered"] # asked.filters["lowered"]

\* C28: in the standard scene, before and after any commands,
\* find_objects(kind='pyramid', color='red') yields one id, 8, the obj_id of
\* the tall red pyramid.
FindsTallRedPyramid ==
    [][(/\ setup = "standard"
        /\ last'.op = "find_objects"
        /\ DOMAIN asked'.filters = {"kind", "color"}
        /\ asked'.filters["kind"] = Some("pyramid")
        /\ asked'.filters["color"] = Some("red"))
       => /\ last'.exc = Returned
          /\ ret' = Some(<<8>>)
          /\ objects[Named(Some(8))].shape = "tall_red_pyramid"]_vars

\* The red pyramids have been asked for in the standard scene while the
\* grasper, moved from where it started, holds an object.
AskedForRedPyramidWhileHolding ==
    /\ setup = "standard"
    /\ last.op = "find_objects"
    /\ asked.filters["kind"] = Some("pyramid")
    /\ asked.filters["color"] = Some("red")
    /\ ret = Some(<<8>>)
    /\ \E g \in Graspers :
          /\ objects[g].tags["grasped"] # None
          /\ objects[g].position # Scenes[setup][g].position

\* The greatest z among the salient points of a shape.
Summit(shape) ==
    CHOOSE z \in {p[3] : p \in SalientPointSet[shape]} :
        \A p \in SalientPointSet[shape] : p[3] <= z

\* C29: find_highest_point of a box returns the position of the box, wherever
\* the box is; of an object of another kind it returns the position plus a
\* salient point of the shape that no salient point exceeds in z.
HighestPointRule ==
    [][last'.op = "find_highest_point"
       => LET self == objects[asked'.self]
          IN  IF self.tags["kind"] = Some("box")
              THEN ret' = Some(self.position)
              ELSE \E p \in SalientPointSet[self.shape] :
                      /\ p[3] = Summit(self.shape)
                      /\ ret' = Some(PointAdd(self.position, p))]_vars

\* The rule of find_highest_point for the kinds other than box, on its own.
HighestPointOfOtherKinds ==
    [][(last'.op = "find_highest_point"
        /\ objects[asked'.self].tags["kind"] # Some("box"))
       => \E p \in SalientPointSet[objects[asked'.self].shape] :
             /\ p[3] = Summit(objects[asked'.self].shape)
             /\ ret' = Some(PointAdd(objects[asked'.self].position, p))]_vars

\* The extent of a shape along axis k: the least and the greatest coordinate
\* of its salient points.
Least(shape, k) ==
    CHOOSE v \in {p[k] : p \in SalientPointSet[shape]} :
        \A p \in SalientPointSet[shape] : v <= p[k]
Greatest(shape, k) ==
    CHOOSE v \in {p[k] : p \in SalientPointSet[shape]} :
        \A p \in SalientPointSet[shape] : p[k] <= v

\* The point is directly above the footprint of the object: the rectangle
\* that its shape spans in x and y around its position, border included.
Over(self, point) ==
    /\ self.position[1] + Least(self.shape, 1) <= point[1]
    /\ point[1] <= self.position[1] + Greatest(self.shape, 1)
    /\ self.position[2] + Least(self.shape, 2) <= point[2]
    /\ point[2] <= self.position[2] + Greatest(self.shape, 2)

\* C30: can_support is false when the object's can_support tag is false.
\* When it is true, a box supports the other object exactly when every
\* salient point of the other's shape, offset by the other's position, is
\* directly above the footprint of the box, and an object of another kind
\* exactly when the other's position is directly above its footprint.  No z
\* enters the result.
CanSupportRule ==
    [][last'.op = "can_support"
       => LET self == objects[asked'.self]
              obj == objects[asked'.obj]
          IN  ret' = Some(/\ self.tags["can_support"] = Some(TRUE)
                          /\ IF self.tags["kind"] = Some("box")
                             THEN \A p \in SalientPointSet[obj.shape] :
                                     Over(self, PointAdd(obj.position, p))
                             ELSE Over(self, obj.position))]_vars

\* A box has refused to support a block that straddles its rim, the block's
\* position being above the footprint of the box and the two objects at
\* different heights.
BoxRefusedStraddlingBlock ==
    /\ last.op = "can_support"
    /\ ret = Some(FALSE)
    /\ asked.self # asked.obj
    /\ objects[asked.self].tags["kind"] = Some("box")
    /\ objects[asked.self].tags["can_support"] = Some(TRUE)
    /\ objects[asked.obj].tags["kind"] = Some("block")
    /\ Over(objects[asked.self], objects[asked.obj].position)
    /\ objects[asked.self].position[3] # objects[asked.obj].position[3]

\* C33: whenever open_grasper evaluates its assertion, the held object's
\* grasped_by tag is the obj_id of the grasper that opens: no call of
\* open_grasper raises AssertionError.
OpenAssertionHolds ==
    [][last'.op = "open_grasper" => last'.exc # AssertionError]_vars

\* C34: the object a close_grasper grasps is, when the call is made, held by
\* no other grasper, and its x and y are those of the closing grasper
\* within the distance tolerance.
CloseGraspsBeneath ==
    [][(/\ last'.op = "close_grasper"
        /\ last'.exc = Returned
        /\ objects[last'.grasper].tags["grasped"] = None
        /\ objects'[last'.grasper].tags["grasped"] # None)
       => LET g == last'.grasper
              o == Named(objects'[g].tags["grasped"])
          IN  /\ objects[o].tags["grasped_by"] = None
              /\ ~Held(o)
              /\ WithinTolerance(objects[o].position, objects[g].position,
                                 ctl.tolerance)]_vars

\* In the scene objs every object that a grasper's grasped tag names has the
\* grasper's x and y within the tolerance, and the grasper's z is the z of
\* the object's highest point.
Pinned(objs, tolerance) ==
    \A g \in 1..Len(objs), o \in 1..Len(objs) :
        (/\ objs[g].tags["kind"] = Some("grasper")
         /\ objs[g].tags["grasped"] # None
         /\ objs[g].tags["grasped"] = objs[o].tags["obj_id"])
        => /\ WithinTolerance(objs[o].position, objs[g].position, tolerance)
           /\ objs[g].position[3] = find_highest_point(objs[o])[1][3]

\* C35: after every call, each held object is pinned to each grasper that
\* holds it: same x and y within the distance tolerance, the grasper's z at
\* the z of the object's highest point; after a move_grasper, lower_grasper
\* or raise_grasper that returns, the x and y of the object that the
\* grasper holds are exactly the grasper's.
HeldStaysPinned ==
    [][/\ Pinned(objects', ctl'.tolerance)
       /\ (/\ last'.op \in {"move_grasper", "lower_grasper", "raise_grasper"}
           /\ last'.exc = Returned
           /\ objects'[last'.grasper].tags["grasped"] # None)
          => LET g == last'.grasper
                 o == Named(objects[g].tags["grasped"])
             IN  /\ objects'[o].position[1] = objects'[g].position[1]
                 /\ objects'[o].position[2] = objects'[g].position[2]]_vars

\* C36: a lower_grasper on a raised grasper and a raise_grasper on a lowered
\* grasper return, whatever the grasper holds and wherever it is, and leave
\* the grasper lowered and raised in turn; a lower_grasper on a lowered
\* grasper and a raise_grasper on a raised one raise, so that the two calls
\* alternate on each grasper.  A grasper's lowered flag changes only by a
\* lower_grasper or raise_grasper on it, and its closed flag only by a
\* close_grasper or open_grasper on it.
NeverStuck ==
    [][/\ (last'.op = "lower_grasper" /\ last'.grasper # 0)
          => IF Lowered(objects[last'.grasper])
             THEN last'.exc = UnmetConditionError
             ELSE last'.exc = Returned /\ Lowered(objects'[last'.grasper])
       /\ (last'.op = "raise_grasper" /\ last'.grasper # 0)
          => IF Lowered(objects[last'.grasper])
             THEN last'.exc = Returned /\ ~Lowered(objects'[last'.grasper])
             ELSE last'.exc = UnmetConditionError
       /\ \A g \in Graspers :
             /\ Lowered(objects'[g]) # Lowered(objects[g])
                => /\ last'.op \in {"lower_grasper", "raise_grasper"}
                   /\ last'.grasper = g
                   /\ last'.exc = Returned
             /\ Closed(objects'[g]) # Closed(objects[g])
                => /\ last'.op \in {"close_grasper", "open_grasper"}
                   /\ last'.grasper = g
                   /\ last'.exc = Returned]_vars

\* A grasper that holds an object has been lowered with nothing beneath it,
\* off the table, down to the ground.
LoweredHeldOffTheTable ==
    /\ last.op = "lower_grasper"
    /\ last.exc = Returned
    /\ ~Lowered(Before)
    /\ Before.tags["grasped"] # None
    /\ Lowered(objects[last.grasper])
    /\ \A i \in 1..Len(objects) :
          i \in Graspers \/ Held(i)
             \/ ~is_below_point(objects[i], objects[last.grasper].position)

\* The commands of the controller on a grasper.
CommandOps == {"close_grasper", "open_grasper", "move_grasper", "lower_grasper",
               "raise_grasper"}

\* C37: a command that has resolved its grasper and raises
\* UnmetConditionError because of the state the grasper is in leaves the
\* controller's default grasper as it was before the call.
RefusalKeepsDefault ==
    [][(/\ last'.op \in CommandOps
        /\ last'.grasper # 0
        /\ last'.exc = UnmetConditionError)
       => ctl'.default_grasper = ctl.default_grasper]_vars

\* The width and the depth given to the factory of each shape of
\* BelowSpecimens other than the grasper.
Footprints ==
    [table |-> <<200, 200>>, hall |-> <<2400, 200>>, cube |-> <<20, 20>>,
     plank |-> <<40, 20>>, tray |-> <<40, 20>>, cone |-> <<20, 20>>,
     wedge |-> <<40, 20>>]

\* The point is inside or on the rectangle of the object's width and depth
\* centred on the object's position.
OnFootprint(self, point) ==
    /\ 2 * Abs(point[1] - self.position[1]) <= Footprints[self.shape][1]
    /\ 2 * Abs(point[2] - self.position[2]) <= Footprints[self.shape][2]

\* The point is outside that rectangle by more than inside_triangle's
\* tolerance: outside the rectangle enlarged by the factor 1 + tolerance.
BeyondTolerance(self, point) ==
    \/ 2 * Abs(point[1] - self.position[1]) * ToleranceDen
           > Footprints[self.shape][1] * (ToleranceDen + 1)
    \/ 2 * Abs(point[2] - self.position[2]) * ToleranceDen
           > Footprints[self.shape][2] * (ToleranceDen + 1)

\* C31: is_below_point of an object built by the table, block, box or pyramid
\* factory is true of every point whose x and y are inside or on the
\* rectangle of the object's width and depth centred on its position, and
\* false of every point outside that rectangle by more than the tolerance
\* of inside_triangle, whatever the point's z; of a grasper it is false of
\* every point.
BelowPointRule ==
    [][last'.op = "is_below_point"
       => LET self == objects[asked'.self]
              point == asked'.point
          IN  IF self.shape = "grasper" THEN ret' = Some(FALSE)
              ELSE /\ OnFootprint(self, point) => ret' = Some(TRUE)
                   /\ BeyondTolerance(self, point) => ret' = Some(FALSE)]_vars

\* An oblong pyramid off the origin has been found below a point on the
\* corner of its footprint, the point being lower than the pyramid.
BelowCornerOfWedge ==
    /\ last.op = "is_below_point"
    /\ objects[asked.self].shape = "wedge"
    /\ objects[asked.self].position = Point(30, -10, 20)
    /\ asked.point = Point(50, 0, 0)
    /\ ret = Some(TRUE)

\* The widest table has been found below a point outside its footprint,
\* within the tolerance.
BelowPointOffTheHall ==
    /\ last.op = "is_below_point"
    /\ objects[asked.self].shape = "hall"
    /\ ~OnFootprint(objects[asked.self], asked.point)
    /\ ret = Some(TRUE)

\* The edges of the surfaces of a shape.
EdgesOf(shape) == UNION {Range(shape[s]) : s \in 1..Len(shape)}

\* C32: make_box returns the surfaces of make_block of the same width, depth
\* and height without the top face, the one whose edges lie in z = height,
\* in the same order: five faces over the same twelve edges.  make_block
\* returns six faces of four edges each.
BoxIsBlockWithoutTop ==
    [][/\ last'.op = "make_box"
          => LET box == ret'[1]
                 block == make_block(asked'.width, asked'.depth, asked'.height)
             IN  /\ Len(box) = 5
                 /\ \A s \in 1..5 : box[s] = block[s]
                 /\ \A e \in Range(block[6]) :
                       e[1][3] = asked'.height /\ e[2][3] = asked'.height
                 /\ \A s \in 1..5 : \E e \in Range(block[s]) :
                       e[1][3] # asked'.height \/ e[2][3] # asked'.height
                 /\ EdgesOf(box) = EdgesOf(block)
                 /\ Cardinality(EdgesOf(box)) = 12
       /\ last'.op = "make_block"
          => /\ Len(ret'[1]) = 6
             /\ \A s \in 1..6 : /\ Len(ret'[1][s]) = 4
                                /\ Cardinality(Range(ret'[1][s])) = 4]_vars

\* make_box has been called on a width equal to the height and unlike the
\* depth, and has returned five faces.
MadeOblongBox ==
    /\ last.op = "make_box"
    /\ asked.width = asked.height
    /\ asked.width # asked.depth
    /\ Len(ret[1]) = 5

\* The callback threads that have been started and have not finished.
Unfinished(v) == {t \in 1..Len(v.threads) : v.threads[t].pc # "finished"}

\* C38: the viewer issues one command at a time to its controller: a
\* callback thread is started only when every callback thread started
\* before it has finished.
OneCallbackAtATime ==
    [][(viewer # NoViewer /\ Len(viewer'[1].threads) > Len(viewer[1].threads))
       => Unfinished(viewer[1]) = {}]_vars

\* Two callback threads are inside the callback at once, each with the
\* viewer's controller.
TwoInsideCallback ==
    /\ viewer # NoViewer
    /\ Cardinality({t \in 1..Len(viewer[1].threads) :
                       viewer[1].threads[t].pc = "callback"}) >= 2

====
